---------------------------- MODULE Spec2Model ----------------------------
(***************************************************************************)
(* State-machine model of the streaming analytics core of                  *)
(* cpp-real-time-data-backtest:                                            *)
(*   - src/src/trades.cpp: MyEventHandler (rolling window of 50 trades,    *)
(*     EWMA volatility, adaptive thresholds, anomaly flags);               *)
(*   - src/src/liquidity_analyzer.cpp: LiquidityAnalyzer (mutex-guarded    *)
(*     trade/price history and order book view) and                        *)
(*     LiquidityEventHandler (validation, trade counter, periodic          *)
(*     comprehensive analysis).                                            *)
(*                                                                         *)
(* Numbers.  Prices are whole dollars.  Trade volumes and order-book sizes *)
(* are in tenths of a unit (10 = 1.0).  Log returns are in units of 1e-4   *)
(* and variances in units of 1e-8.  A double that may leave the finite     *)
(* range is a record [k, v]: k = "fin" with value v, k = "inf" (+infinity) *)
(* or k = "nan".                                                           *)
(***************************************************************************)
EXTENDS Integers, Sequences, FiniteSets, TLC

VARIABLES
  \* ---- trades.cpp, MyEventHandler (lines 28-42) ----
  recent_trades,            \* std::deque<TradeData>
  trade_count,              \* size_t trade_count
  large_trade_threshold,    \* double, tenths
  price_movement_threshold, \* double, dollars
  ewma_initialized,         \* bool
  ewma_variance,            \* double as [k, v], 1e-8
  previous_price,           \* double, dollars
  anomalies,                \* the three flags printed for the last classified trade
  feed,                     \* every trade element delivered to processEvent, in order
  tpc,                      \* per handler thread: position inside processEvent
  tmsg                      \* per handler thread: the element being processed

tradesVars == <<recent_trades, trade_count, large_trade_threshold,
                price_movement_threshold, ewma_initialized, ewma_variance,
                previous_price, anomalies, feed, tpc, tmsg>>

VARIABLES
  \* ---- liquidity_analyzer.cpp, LiquidityAnalyzer (lines 200-205) ----
  trade_history,            \* std::deque<Trade>
  price_history,            \* std::vector<double>
  current_bids,             \* std::vector<OrderBookLevel>
  current_asks,             \* std::vector<OrderBookLevel>
  data_mutex,               \* "free" or the thread holding it
  \* ---- LiquidityEventHandler (line 717) ----
  liq_trade_count,          \* std::atomic<int> trade_count
  \* ---- threads calling into the analyzer ----
  lpc,                      \* per thread: position in the operation it runs
  larg,                     \* per thread: arguments of that operation
  lsnap,                    \* per thread: the LiquidityMetrics being assembled,
                            \* as the state each sub-computation read
  \* ---- history of the run ----
  liq_feed,                 \* every trade message handed to processTrade
  accepted,                 \* trades in the order addTrade stored them
  ops,                      \* operations started by the feed threads
  uob_last                  \* arguments of the updateOrderBook call that
                            \* acquired data_mutex last

liqVars == <<trade_history, price_history, current_bids, current_asks,
             data_mutex, liq_trade_count, lpc, larg, lsnap, liq_feed,
             accepted, ops, uob_last>>

\* which executable and which workload the run is: the repository builds
\* trades and liquidity_analyzer as separate programs
VARIABLE run

VARIABLES
  \* ---- the environment of the analyzer ----
  now,                      \* std::chrono::system_clock::now(), in hours
  ingests,                  \* addTrade and updateOrderBook calls begun so far
  lprev,                    \* per thread: the snapshot it finished before the
                            \* one in lsnap
  \* ---- one call of a function of the program, by itself ----
  call,                     \* the arguments
  result                    \* what it returned

envVars == <<now, ingests, lprev, call, result>>

vars == <<tradesVars, liqVars, run, envVars>>

-----------------------------------------------------------------------------
(* Bounds of the model *)

\* trade elements delivered to MyEventHandler in one run (51 fills the window
\* of 50 and evicts once)
MaxTrades == 52
\* how many of the delivered elements may differ from BaseTrade
MaxVaried == 1
\* trade elements delivered in the multi-threaded run
MaxTradesMT == 3

(* Program constants of trades.cpp *)
AVERAGE_WINDOW_SIZE == 50
MIN_TRADES_FOR_ANALYSIS == 10
\* LAMBDA = 0.92, in hundredths
LAMBDA_PCT == 92
\* VOLATILITY_THRESHOLD = 0.02, in 1e-4
VOLATILITY_THRESHOLD_E4 == 200
\* TRADE_SIZE_MULTIPLIER = 3.0
TRADE_SIZE_MULTIPLIER == 3
\* PRICE_DEVIATION_MULTIPLIER = 2.5, in tenths
PRICE_DEVIATION_MULTIPLIER_X10 == 25
\* initial ewma_variance = 0.0001, in 1e-8
EWMA_SEED_E8 == 10000
\* initial large_trade_threshold = 1.0 and its floor max(1.0, ...), in tenths
LARGE_TRADE_INIT == 10
LARGE_TRADE_FLOOR == 10
\* initial price_movement_threshold = 100.0 and its floor max(10.0, ...)
PRICE_MOVE_INIT == 100
PRICE_MOVE_FLOOR == 10
\* percentiles 0.9 and 0.95, in hundredths
VOLUME_PERCENTILE == 90
PRICE_PERCENTILE == 95

-----------------------------------------------------------------------------
(* Doubles *)

Fin(n) == [k |-> "fin", v |-> n]
PosInf == [k |-> "inf", v |-> 0]
NaN == [k |-> "nan", v |-> 0]

\* IEEE-754 comparisons: every comparison with NaN is false
DLess(a, b) ==
  /\ a.k # "nan" /\ b.k # "nan"
  /\ a.k # "inf"
  /\ b.k = "inf" \/ a.v < b.v
DLessEqZero(a) == a.k = "fin" /\ a.v <= 0
DGreaterZero(a) == a.k = "inf" \/ (a.k = "fin" /\ a.v > 0)

Abs(x) == IF x < 0 THEN -x ELSE x
Min(a, b) == IF a <= b THEN a ELSE b
Max(a, b) == IF a >= b THEN a ELSE b

-----------------------------------------------------------------------------
(* Binary floating point for liquidity_analyzer.cpp.  A finite double is     *)
(* [k |-> "fin", v |-> m, e |-> x], the number m * 2^x with |m| < 2^          *)
(* MantissaBits and m odd or zero; every operation rounds its exact result   *)
(* to the nearest such number, ties to even, as IEEE-754 does with 53 bits.  *)

\* bits of the significand (53 in IEEE-754 binary64)
MantissaBits == 8

RECURSIVE Pow2(_)
Pow2(n) == IF n <= 0 THEN 1 ELSE 2 * Pow2(n - 1)

RECURSIVE BitLen(_)
BitLen(n) == IF n <= 0 THEN 0 ELSE 1 + BitLen(n \div 2)

FNaN == [k |-> "nan", v |-> 0, e |-> 0]
FZero == [k |-> "fin", v |-> 0, e |-> 0]

\* m * 2^x with trailing zero bits of m moved into the exponent
RECURSIVE FNorm(_, _)
FNorm(m, x) ==
  IF m = 0 THEN FZero
  ELSE IF m % 2 = 0 THEN FNorm(m \div 2, x + 1)
  ELSE [k |-> "fin", v |-> m, e |-> x]

\* the rational n / d (n >= 0, d > 0) rounded to an integer multiple of 2^s
RoundQuot(n, d, s) ==
  LET u == d * Pow2(s)
      q == n \div u
      r == n - q * u
  IN IF 2 * r > u \/ (2 * r = u /\ q % 2 = 1) THEN q + 1 ELSE q

\* sign * (n / d) * 2^x rounded to MantissaBits significant bits
FRound(sign, n, d, x) ==
  LET s == Max(BitLen(n \div d) - MantissaBits, 0)
  IN FNorm(sign * RoundQuot(n, d, s), x + s)

Sign(n) == IF n < 0 THEN -1 ELSE 1

\* an integer as a double
FInt(n) == FRound(Sign(n), Abs(n), 1, 0)

IsNaN(a) == a.k = "nan"

FNeg(a) == IF IsNaN(a) THEN FNaN ELSE [a EXCEPT !.v = -a.v]

FMul(a, b) ==
  IF IsNaN(a) \/ IsNaN(b) THEN FNaN
  ELSE FRound(Sign(a.v) * Sign(b.v), Abs(a.v) * Abs(b.v), 1, a.e + b.e)

\* a + b: exact when the exponents are close; an operand below half a unit
\* in the last place of the other changes nothing
FAdd(a, b) ==
  IF IsNaN(a) \/ IsNaN(b) THEN FNaN
  ELSE IF a.v = 0 THEN b
  ELSE IF b.v = 0 THEN a
  ELSE IF a.e - b.e > 2 * MantissaBits + 2 THEN a
  ELSE IF b.e - a.e > 2 * MantissaBits + 2 THEN b
  ELSE LET x == Min(a.e, b.e)
           n == a.v * Pow2(a.e - x) + b.v * Pow2(b.e - x)
       IN FRound(Sign(n), Abs(n), 1, x)

FSub(a, b) == FAdd(a, FNeg(b))

\* a / b; x / 0 is an infinity or NaN, which no caller in the analyzer lets
\* through as a value: both are NaN here
FDiv(a, b) ==
  IF IsNaN(a) \/ IsNaN(b) \/ b.v = 0 THEN FNaN
  ELSE FRound(Sign(a.v) * Sign(b.v), Abs(a.v) * Pow2(2 * MantissaBits),
              Abs(b.v), a.e - b.e - 2 * MantissaBits)

\* comparisons: false when an operand is NaN
FLess(a, b) ==
  /\ ~IsNaN(a) /\ ~IsNaN(b)
  /\ FSub(a, b).v < 0
FLessEq(a, b) == ~IsNaN(a) /\ ~IsNaN(b) /\ FSub(a, b).v <= 0
FMin(a, b) == IF FLess(b, a) THEN b ELSE a

\* std::log(a / b) for a, b > 0, in 1e-4: 2*atanh((a-b)/(a+b)) to third order
LogE4(a, b) ==
  LET z == (Abs(a - b) * 100000) \div (a + b)
      r == (2 * z + (2 * ((z * z) \div 10000) * z) \div 3000000 + 5) \div 10
  IN IF a >= b THEN r ELSE -r

\* (return_value * return_value) of std::log(current_price / previous_price)
\* under IEEE-754: x/0 is an infinity or NaN, log(0) = -inf, log(x<0) = NaN,
\* log(+inf) = +inf
LogReturnSquared(current_price, prev) ==
  IF prev = 0
    THEN IF current_price > 0 THEN PosInf ELSE NaN
    ELSE IF current_price = 0 THEN PosInf
         ELSE IF (current_price > 0) # (prev > 0) THEN NaN
         ELSE LET r == LogE4(Abs(current_price), Abs(prev)) IN Fin(r * r)

\* LAMBDA * ewma_variance + (1.0 - LAMBDA) * r2
EwmaBlend(variance, r2) ==
  IF variance.k = "nan" \/ r2.k = "nan" THEN NaN
  ELSE IF variance.k = "inf" \/ r2.k = "inf" THEN PosInf
  ELSE Fin((LAMBDA_PCT * variance.v + (100 - LAMBDA_PCT) * r2.v) \div 100)

-----------------------------------------------------------------------------
(* trades.cpp: helpers of MyEventHandler *)

TradeData(price, volume, timestamp) ==
  [price |-> price, volume |-> volume, timestamp |-> timestamp]

\* updateEWMAVolatility on the state [init, var, prev]
updateEWMAVolatility(e, current_price) ==
  IF ~e.init
    THEN [init |-> TRUE, var |-> Fin(EWMA_SEED_E8), prev |-> current_price]
    ELSE [init |-> TRUE,
          var |-> EwmaBlend(e.var, LogReturnSquared(current_price, e.prev)),
          prev |-> current_price]

\* recent_trades.push_back(trade_data)
PushBack(w, td) == Append(w, td)

\* a window that is emptied down to its newest trade when it overflows
MaintainWindow_KeepNewest(w) ==
  IF Len(w) > AVERAGE_WINDOW_SIZE THEN <<w[Len(w)]>> ELSE w

\* if (recent_trades.size() > AVERAGE_WINDOW_SIZE) recent_trades.pop_front()
MaintainWindow(w) == IF Len(w) > AVERAGE_WINDOW_SIZE THEN Tail(w) ELSE w

RECURSIVE Insert(_, _)
Insert(s, x) ==
  IF s = <<>> THEN <<x>>
  ELSE IF x <= Head(s) THEN <<x>> \o s
  ELSE <<Head(s)>> \o Insert(Tail(s), x)

\* std::sort, ascending
RECURSIVE SortAsc(_)
SortAsc(s) == IF s = <<>> THEN <<>> ELSE Insert(SortAsc(Tail(s)), Head(s))

RECURSIVE SumSeq(_)
SumSeq(s) == IF s = <<>> THEN 0 ELSE Head(s) + SumSeq(Tail(s))

Volumes(w) == [i \in 1..Len(w) |-> w[i].volume]
PriceChanges(w) ==
  IF Len(w) < 2 THEN <<>>
  ELSE [i \in 1..(Len(w) - 1) |-> Abs(w[i + 1].price - w[i].price)]

\* the middle value of the sample, whatever the percentile
Percentile_Median(sample, pct) == SortAsc(sample)[(Len(sample) \div 2) + 1]

\* the largest value of the sample, whatever the percentile
Percentile_Max(sample, pct) == SortAsc(sample)[Len(sample)]

\* sorted[min(static_cast<size_t>(n * p), n - 1)]
Percentile(sample, pct) ==
  LET sorted == SortAsc(sample)
      idx == (Len(sample) * pct) \div 100
  IN sorted[Min(idx, Len(sample) - 1) + 1]

\* percentiles taken as they are, without std::max against the floors
updateAdaptiveThresholds_NoFloor(w, th) ==
  IF Len(w) < MIN_TRADES_FOR_ANALYSIS THEN th
  ELSE [large |-> Percentile(Volumes(w), VOLUME_PERCENTILE),
        move |-> IF PriceChanges(w) = <<>> THEN th.move
                 ELSE Percentile(PriceChanges(w), PRICE_PERCENTILE)]

\* updateAdaptiveThresholds on the thresholds [large, move]
updateAdaptiveThresholds(w, th) ==
  IF Len(w) < MIN_TRADES_FOR_ANALYSIS THEN th
  ELSE [large |-> Max(LARGE_TRADE_FLOOR, Percentile(Volumes(w), VOLUME_PERCENTILE)),
        move |-> IF PriceChanges(w) = <<>> THEN th.move
                 ELSE Max(PRICE_MOVE_FLOOR,
                          Percentile(PriceChanges(w), PRICE_PERCENTILE))]

\* a detector with the absolute criterion only
detectPriceAnomaly_AbsoluteOnly(w, current_price, move_threshold) ==
  Len(w) >= 2 /\ Abs(current_price - w[Len(w) - 1].price) > move_threshold

\* detectPriceAnomaly: price_change > threshold, or
\* price_change > avg_price_deviation * 2.5 with avg = sum / (n - 1)
detectPriceAnomaly(w, current_price, move_threshold) ==
  IF Len(w) < 2 THEN FALSE
  ELSE LET sum == SumSeq(PriceChanges(w))
           price_change == Abs(current_price - w[Len(w) - 1].price)
       IN IF sum <= 0 THEN FALSE
          ELSE \/ price_change > move_threshold
               \/ 10 * price_change * (Len(w) - 1) > PRICE_DEVIATION_MULTIPLIER_X10 * sum

\* detectSizeAnomaly: volume > threshold, or volume > avg_trade_size * 3.0
detectSizeAnomaly(w, current_volume, large_threshold) ==
  IF Len(w) < MIN_TRADES_FOR_ANALYSIS THEN current_volume > large_threshold
  ELSE LET sum == SumSeq(Volumes(w))
       IN IF sum <= 0 THEN current_volume > large_threshold
          ELSE \/ current_volume > large_threshold
               \/ current_volume * Len(w) > TRADE_SIZE_MULTIPLIER * sum

\* a detector that compares the variance, not its square root, with the
\* threshold
detectVolatilityAnomaly_NoSqrt(init, variance) ==
  /\ init
  /\ \/ variance.k = "inf"
     \/ variance.k = "fin" /\ variance.v > VOLATILITY_THRESHOLD_E4 * 10000

\* detectVolatilityAnomaly: sqrt(ewma_variance) > VOLATILITY_THRESHOLD
detectVolatilityAnomaly(init, variance) ==
  IF ~init THEN FALSE
  ELSE CASE variance.k = "nan" -> FALSE
         [] variance.k = "inf" -> TRUE
         [] OTHER -> IF variance.v < 0 THEN FALSE
                     ELSE variance.v > VOLATILITY_THRESHOLD_E4 * VOLATILITY_THRESHOLD_E4

-----------------------------------------------------------------------------
(* trades.cpp: inputs *)

BaseTrade == [price |-> 1000, volume |-> 10]

\* what std::stod may hand to the handler: any finite double, so also
\* non-positive prices and sizes
VariedTrades ==
  { [price |-> 1001, volume |-> 10], [price |-> 1200, volume |-> 10],
    [price |-> 1000, volume |-> 5],  [price |-> 1000, volume |-> 70],
    [price |-> 0, volume |-> 10],    [price |-> -1000, volume |-> 10],
    [price |-> 1000, volume |-> 0],  [price |-> 1000, volume |-> -10] }

IsBase(m) == m.price = BaseTrade.price /\ m.volume = BaseTrade.volume
VariedCount == Cardinality({i \in 1..Len(feed) : ~IsBase(feed[i])})

TradeInputs ==
  {BaseTrade} \cup (IF VariedCount < MaxVaried THEN VariedTrades ELSE {})

ValidTrade(m) == m.price > 0 /\ m.volume > 0

TThreads == {"h1", "h2"}

TradesInit ==
  /\ recent_trades = <<>>
  /\ trade_count = 0
  /\ large_trade_threshold = LARGE_TRADE_INIT
  /\ price_movement_threshold = PRICE_MOVE_INIT
  /\ ewma_initialized = FALSE
  /\ ewma_variance = Fin(0)
  /\ previous_price = 0
  /\ anomalies = [price |-> FALSE, size |-> FALSE, volatility |-> FALSE]
  /\ feed = <<>>
  /\ tpc = [t \in TThreads |-> "idle"]
  /\ tmsg = [t \in TThreads |-> TradeData(0, 0, 0)]

-----------------------------------------------------------------------------
(* trades.cpp: MyEventHandler::processEvent, one trade element, lines 81-108, *)
(* run to completion by a single handler thread                              *)

ProcessEvent(m) ==
  LET td == TradeData(m.price, m.volume, Len(feed) + 1)
      e == updateEWMAVolatility([init |-> ewma_initialized, var |-> ewma_variance,
                                 prev |-> previous_price], m.price)
      w == MaintainWindow(PushBack(recent_trades, td))
      th == updateAdaptiveThresholds(w, [large |-> large_trade_threshold,
                                         move |-> price_movement_threshold])
  IN /\ run = "trades"
     /\ Len(feed) < MaxTrades
     /\ feed' = Append(feed, td)
     /\ recent_trades' = w
     /\ trade_count' = trade_count + 1
     /\ ewma_initialized' = e.init
     /\ ewma_variance' = e.var
     /\ previous_price' = e.prev
     /\ large_trade_threshold' = th.large
     /\ price_movement_threshold' = th.move
     /\ anomalies' = [price |-> detectPriceAnomaly(w, m.price, th.move),
                      size |-> detectSizeAnomaly(w, m.volume, th.large),
                      volatility |-> detectVolatilityAnomaly(e.init, e.var)]
     /\ UNCHANGED <<tpc, tmsg, liqVars, run, envVars>>

TradesNext == \E m \in TradeInputs : ProcessEvent(m)

-----------------------------------------------------------------------------
(* trades.cpp: the same handler entered by several feed threads; the class   *)
(* holds no lock (lines 28-42), so the statements of processEvent interleave *)

\* a read that consumes what it reads
AfterRead_Consumed(member) == <<>>

\* what a function leaves in a member it only reads: the detect functions
\* index and iterate recent_trades, the metric functions are const members
\* and sort copies
AfterRead(member) == member

TState == <<recent_trades, trade_count, large_trade_threshold,
            price_movement_threshold, ewma_initialized, ewma_variance,
            previous_price>>

\* lines 81-88: parse the element, build trade_data
MTReceive(t, m) ==
  /\ run = "trades_mt"
  /\ tpc[t] = "idle"
  /\ Len(feed) < MaxTradesMT
  /\ tmsg' = [tmsg EXCEPT ![t] = TradeData(m.price, m.volume, Len(feed) + 1)]
  /\ feed' = Append(feed, tmsg'[t])
  /\ tpc' = [tpc EXCEPT ![t] = "push"]
  /\ UNCHANGED <<TState, anomalies, liqVars, run, envVars>>

\* lines 91-92
MTPush(t) ==
  /\ tpc[t] = "push"
  /\ recent_trades' = PushBack(recent_trades, tmsg[t])
  /\ trade_count' = trade_count + 1
  /\ tpc' = [tpc EXCEPT ![t] = "ewma"]
  /\ UNCHANGED <<large_trade_threshold, price_movement_threshold,
                 ewma_initialized, ewma_variance, previous_price, anomalies,
                 feed, tmsg, liqVars, run, envVars>>

\* line 95
MTEwma(t) ==
  LET e == updateEWMAVolatility([init |-> ewma_initialized, var |-> ewma_variance,
                                 prev |-> previous_price], tmsg[t].price)
  IN /\ tpc[t] = "ewma"
     /\ ewma_initialized' = e.init
     /\ ewma_variance' = e.var
     /\ previous_price' = e.prev
     /\ tpc' = [tpc EXCEPT ![t] = "evict"]
     /\ UNCHANGED <<recent_trades, trade_count, large_trade_threshold,
                    price_movement_threshold, anomalies, feed, tmsg, liqVars, run, envVars>>

\* lines 98-100
MTEvict(t) ==
  /\ tpc[t] = "evict"
  /\ recent_trades' = MaintainWindow(recent_trades)
  /\ tpc' = [tpc EXCEPT ![t] = "thresholds"]
  /\ UNCHANGED <<trade_count, large_trade_threshold, price_movement_threshold,
                 ewma_initialized, ewma_variance, previous_price, anomalies,
                 feed, tmsg, liqVars, run, envVars>>

\* line 103
MTThresholds(t) ==
  LET th == updateAdaptiveThresholds(recent_trades,
                                     [large |-> large_trade_threshold,
                                      move |-> price_movement_threshold])
  IN /\ tpc[t] = "thresholds"
     /\ large_trade_threshold' = th.large
     /\ price_movement_threshold' = th.move
     /\ tpc' = [tpc EXCEPT ![t] = "detect"]
     /\ UNCHANGED <<recent_trades, trade_count, ewma_initialized, ewma_variance,
                    previous_price, anomalies, feed, tmsg, liqVars, run, envVars>>

\* lines 106-108
MTDetect(t) ==
  /\ tpc[t] = "detect"
  /\ anomalies' =
       [price |-> detectPriceAnomaly(recent_trades, tmsg[t].price,
                                     price_movement_threshold),
        size |-> detectSizeAnomaly(recent_trades, tmsg[t].volume,
                                   large_trade_threshold),
        volatility |-> detectVolatilityAnomaly(ewma_initialized, ewma_variance)]
  /\ tpc' = [tpc EXCEPT ![t] = "idle"]
  /\ recent_trades' = AfterRead(recent_trades)
  /\ UNCHANGED <<trade_count, large_trade_threshold, price_movement_threshold,
                 ewma_initialized, ewma_variance, previous_price>>
  /\ UNCHANGED <<feed, tmsg, liqVars, run, envVars>>

TradesMTNext ==
  \/ \E t \in TThreads, m \in TradeInputs : MTReceive(t, m)
  \/ \E t \in TThreads : MTPush(t)
  \/ \E t \in TThreads : MTEwma(t)
  \/ \E t \in TThreads : MTEvict(t)
  \/ \E t \in TThreads : MTThresholds(t)
  \/ \E t \in TThreads : MTDetect(t)


-----------------------------------------------------------------------------
(* liquidity_analyzer.cpp: data *)

\* static constexpr int MAX_TRADE_HISTORY = 10000 (line 207), scaled down so
\* that the model reaches eviction
MAX_TRADE_HISTORY == 2
\* operations (trade messages, order-book messages, snapshots) started by the
\* feed threads in one run of the concurrent workload; the order-book
\* workload needs no such bound, its state space is finite
MaxOps == 3
\* longest level list of one side in the order-book workload
MaxLevels == 2
\* the run with a clock: operations started, and how far the clock goes
MaxClockOps == 4
MaxClock == 48
\* the run that counts trades: accepted trades delivered (past the second
\* multiple of ANALYSIS_EVERY) and rejected ones among them
MaxCounted == 201
MaxRejected == 1

LThreads == {"a1", "a2"}

\* struct Trade (lines 49-66); cost = price * amount is derived
Trade(p, a, ts, s) == [price |-> p, amount |-> a, timestamp |-> ts, side |-> s]

\* Trade::Trade validation (lines 61-64): TRUE when the constructor throws
TradeCtorThrows(p, a) == p <= 0 \/ a <= 0

\* struct OrderBookLevel (lines 69-79): price is a double as std::stod
\* returns it, size a finite number of tenths
OrderBookLevel(p, s) == [price |-> p, size |-> s]
Level(p, s) == OrderBookLevel(Fin(p), s)

\* trade messages: LAST_PRICE, LAST_SIZE, IS_BUYER_MAKER as parsed by std::stod
LiqTradeInputs ==
  { [price |-> 100, amount |-> 10, side |-> "buy"],
    [price |-> 101, amount |-> 20, side |-> "sell"],
    [price |-> 0, amount |-> 10, side |-> "buy"],
    [price |-> 100, amount |-> 0, side |-> "sell"] }

\* levels as processOrderBook builds them: resize() fills with (0, 0) and the
\* fields are then assigned from std::stod, which parses any decimal number
\* and also "nan"
Levels ==
  { Level(99, 10), Level(100, 10), Level(0, 10), Level(100, 0),
    OrderBookLevel(NaN, 10) }

SeqsUpTo(S, n) == UNION {[1..k -> S] : k \in 0..n}

Book(b, a) == [bids |-> b, asks |-> a]
EmptyBook == Book(<<>>, <<>>)

\* order-book workload: one side varies over every level list, paired with a
\* fixed list on the other side
FixedSide == <<Level(100, 20), Level(0, 10), Level(100, 10)>>
BookWorkload ==
  {Book(s, FixedSide) : s \in SeqsUpTo(Levels, MaxLevels)}
    \cup {Book(FixedSide, s) : s \in SeqsUpTo(Levels, MaxLevels)}

\* concurrent workload: two books that differ on both sides
BookA == Book(<<Level(99, 10), Level(100, 20)>>, <<Level(101, 30)>>)
BookB == Book(<<Level(100, 10), Level(0, 10)>>,
              <<Level(101, 30), Level(100, 20)>>)
BookInputs == IF run = "analyzer_book" THEN BookWorkload ELSE {BookA, BookB}

\* a field of LiquidityMetrics: a double always holds a number, a
\* std::optional<double> holds a number or std::nullopt
Value(x) == [has |-> TRUE, v |-> x]
Nullopt == [has |-> FALSE, v |-> FZero]

\* the order-book and market-impact fields of a default-constructed
\* LiquidityMetrics, lines 82-117: the doubles are 0.0, the optionals empty
BookFields ==
  {"spread", "relative_spread", "bid_depth", "ask_depth",
   "order_book_imbalance", "bid_vwap", "ask_vwap", "bid_slippage",
   "ask_slippage", "bid_slope", "ask_slope"}
OptionalFields ==
  {"order_book_imbalance", "bid_vwap", "ask_vwap", "bid_slippage",
   "ask_slippage"}
ImpactFields ==
  {"kyles_lambda_daily", "kyles_lambda_hourly", "amihud_one_day",
   "amihud_thirty_days", "amihud_ninety_days"}
RiskFields == {"var_95", "expected_shortfall_95"}
LiquidityMetrics ==
  [f \in BookFields \cup ImpactFields \cup RiskFields |->
     IF f \in OptionalFields THEN Nullopt ELSE Value(FZero)]

NoTrade == Trade(0, 0, 0, "unknown")
NoArg == [trade |-> NoTrade, book |-> EmptyBook]
NoSnap == [done |-> FALSE, risk |-> <<>>, book |-> EmptyBook,
           kyle_daily |-> <<>>, kyle_hourly |-> <<>>,
           amihud_1 |-> <<>>, amihud_30 |-> <<>>, amihud_90 |-> <<>>,
           metrics |-> LiquidityMetrics, at |-> 0]

\* the threads that run in the workload
Active(t) ==
  \/ run \in {"analyzer_mt", "analyzer_count"}
  \/ run \in {"analyzer_book", "analyzer_clock"} /\ t = "a1"

\* the operations a run starts
OpsBound ==
  IF run = "analyzer_clock" THEN MaxClockOps
  ELSE IF run = "analyzer_count" THEN MaxCounted + MaxRejected
  ELSE MaxOps

\* the records of delivered and of stored trades are not kept in the long run
Logged(log, x) == IF run = "analyzer_count" THEN log ELSE Append(log, x)

\* message.getTime() (lines 788-790): the clock where the run has one,
\* else the number of the message
MessageTime == IF run = "analyzer_clock" THEN now ELSE Len(liq_feed) + 1

LiqInit ==
  /\ trade_history = <<>>
  /\ price_history = <<>>
  /\ current_bids = <<>>
  /\ current_asks = <<>>
  /\ data_mutex = "free"
  /\ liq_trade_count = 0
  /\ lpc = [t \in LThreads |-> "idle"]
  /\ larg = [t \in LThreads |-> NoArg]
  /\ lsnap = [t \in LThreads |-> NoSnap]
  /\ liq_feed = <<>>
  /\ accepted = <<>>
  /\ ops = 0
  /\ uob_last = EmptyBook

-----------------------------------------------------------------------------
(* liquidity_analyzer.cpp: std::lock_guard<std::mutex> lock(data_mutex)      *)

\* the operations that start by taking data_mutex, and where each continues
LockEntry ==
  [addTrade |-> "add_hist",
   updateOrderBook |-> "uob_bids",
   calculateRiskMetrics |-> "risk_cs",
   analyzeOrderBookLiquidity |-> "book_cs",
   calculateKylesLambda_daily |-> "kyle_daily_cs",
   calculateKylesLambda_hourly |-> "kyle_hourly_cs",
   calculateAmihudMeasure_1 |-> "amihud_1_cs",
   calculateAmihudMeasure_30 |-> "amihud_30_cs",
   calculateAmihudMeasure_90 |-> "amihud_90_cs"]

\* positions at which a thread is inside a lock_guard scope
InCS == {LockEntry[n] : n \in DOMAIN LockEntry}
          \cup {"add_price", "uob_asks", "uob_filter", "uob_sort"}

\* a lock that excludes nobody
MutexFree_NoExclusion == TRUE

\* std::mutex::lock returns only when no thread holds the mutex
MutexFree == data_mutex = "free"

AcquireMutex(t) ==
  /\ Active(t)
  /\ lpc[t] \in DOMAIN LockEntry
  /\ MutexFree
  /\ data_mutex' = t
  /\ lpc' = [lpc EXCEPT ![t] = LockEntry[lpc[t]]]
  /\ uob_last' = IF lpc[t] = "updateOrderBook" THEN larg[t].book ELSE uob_last
  /\ UNCHANGED <<trade_history, price_history, current_bids, current_asks,
                 liq_trade_count, larg, lsnap, liq_feed, accepted, ops>>
  /\ UNCHANGED <<tradesVars, run, envVars>>

\* the lock_guard's destructor at the end of the scope
Released(t) == IF data_mutex = t THEN "free" ELSE data_mutex

-----------------------------------------------------------------------------
(* LiquidityEventHandler::processTrade and LiquidityAnalyzer::addTrade *)

\* the guard of line 814
TradeAccepted(m) == m.price > 0 /\ m.amount > 0

\* lines 785-816: parse, validate, construct the Trade, call addTrade
ProcessTrade(t, m) ==
  /\ run \in {"analyzer_mt", "analyzer_clock", "analyzer_count"}
  /\ Active(t)
  /\ lpc[t] = "idle"
  /\ ops < OpsBound
  /\ ops' = ops + 1
  /\ liq_feed' = Logged(liq_feed, Trade(m.price, m.amount, MessageTime, m.side))
  /\ IF TradeAccepted(m) /\ ~TradeCtorThrows(m.price, m.amount)
       THEN /\ larg' = [larg EXCEPT ![t].trade =
                          Trade(m.price, m.amount, MessageTime, m.side)]
            /\ lpc' = [lpc EXCEPT ![t] = "addTrade"]
            /\ ingests' = ingests + 1
       ELSE UNCHANGED <<larg, lpc, ingests>>
  /\ UNCHANGED <<trade_history, price_history, current_bids, current_asks,
                 data_mutex, liq_trade_count, lsnap, accepted, uob_last>>
  /\ UNCHANGED <<tradesVars, run, now, lprev, call, result>>

\* a window that drops its newest element on overflow (pop_back for pop_front)
PushBounded_PopBack(h, x) ==
  LET pushed == Append(h, x)
  IN IF Len(pushed) > MAX_TRADE_HISTORY
       THEN SubSeq(pushed, 1, Len(pushed) - 1) ELSE pushed

\* push_back, then pop_front when over MAX_TRADE_HISTORY
PushBounded(h, x) ==
  LET pushed == Append(h, x)
  IN IF Len(pushed) > MAX_TRADE_HISTORY THEN Tail(pushed) ELSE pushed

\* addTrade lines 217-220
AddTradeHistory(t) ==
  /\ lpc[t] = "add_hist"
  /\ trade_history' = PushBounded(trade_history, larg[t].trade)
  /\ accepted' = Logged(accepted, larg[t].trade)
  /\ lpc' = [lpc EXCEPT ![t] = "add_price"]
  /\ UNCHANGED <<price_history, current_bids, current_asks, data_mutex,
                 liq_trade_count, larg, lsnap, liq_feed, uob_last, ops>>
  /\ UNCHANGED <<tradesVars, run, envVars>>

\* a price vector that is never trimmed (no erase of the first element)
AddTradePrice_NoErase(t) ==
  /\ lpc[t] = "add_price"
  /\ price_history' = Append(price_history, larg[t].trade.price)
  /\ data_mutex' = Released(t)
  /\ lpc' = [lpc EXCEPT ![t] = "count"]
  /\ UNCHANGED <<trade_history, current_bids, current_asks, liq_trade_count,
                 larg, lsnap, liq_feed, accepted, uob_last, ops>>
  /\ UNCHANGED <<tradesVars, run, envVars>>

\* addTrade lines 222-226
AddTradePrice(t) ==
  /\ lpc[t] = "add_price"
  /\ price_history' = PushBounded(price_history, larg[t].trade.price)
  /\ data_mutex' = Released(t)
  /\ lpc' = [lpc EXCEPT ![t] = "count"]
  /\ UNCHANGED <<trade_history, current_bids, current_asks, liq_trade_count,
                 larg, lsnap, liq_feed, accepted, uob_last, ops>>
  /\ UNCHANGED <<tradesVars, run, envVars>>

\* every 100 trades (line 820)
ANALYSIS_EVERY == 100

\* a test of the value fetch_add returns, without the + 1
CountTrade_TestBeforeAdd(t) ==
  /\ lpc[t] = "count"
  /\ liq_trade_count' = liq_trade_count + 1
  /\ larg' = [larg EXCEPT ![t] = NoArg]
  /\ IF liq_trade_count % ANALYSIS_EVERY = 0
       THEN /\ lpc' = [lpc EXCEPT ![t] = "calculateRiskMetrics"]
            /\ lsnap' = [lsnap EXCEPT ![t] = [NoSnap EXCEPT !.at = ingests]]
            /\ lprev' = [lprev EXCEPT ![t] = IF lsnap[t].done THEN lsnap[t] ELSE @]
       ELSE /\ lpc' = [lpc EXCEPT ![t] = "idle"]
            /\ UNCHANGED <<lsnap, lprev>>
  /\ UNCHANGED <<trade_history, price_history, current_bids, current_asks,
                 data_mutex, liq_feed, accepted, uob_last, ops>>
  /\ UNCHANGED <<tradesVars, run, now, ingests, call, result>>

\* processTrade lines 819-822: count the trade, analyse on every 100th
CountTrade(t) ==
  /\ lpc[t] = "count"
  /\ liq_trade_count' = liq_trade_count + 1
  /\ larg' = [larg EXCEPT ![t] = NoArg]
  /\ IF (liq_trade_count + 1) % ANALYSIS_EVERY = 0
       THEN /\ lpc' = [lpc EXCEPT ![t] = "calculateRiskMetrics"]
            /\ lsnap' = [lsnap EXCEPT ![t] = [NoSnap EXCEPT !.at = ingests]]
            /\ lprev' = [lprev EXCEPT ![t] = IF lsnap[t].done THEN lsnap[t] ELSE @]
       ELSE /\ lpc' = [lpc EXCEPT ![t] = "idle"]
            /\ UNCHANGED <<lsnap, lprev>>
  /\ UNCHANGED <<trade_history, price_history, current_bids, current_asks,
                 data_mutex, liq_feed, accepted, uob_last, ops>>
  /\ UNCHANGED <<tradesVars, run, now, ingests, call, result>>

-----------------------------------------------------------------------------
(* LiquidityEventHandler::processOrderBook and                               *)
(* LiquidityAnalyzer::updateOrderBook                                        *)

\* the remove_if predicate of lines 236-239 and 243-246:
\* level.price <= 0.0 || level.size <= 0.0
InvalidLevel(level) == DLessEqZero(level.price) \/ level.size <= 0

\* erase(remove_if(...)): the kept levels in their original order
RECURSIVE RemoveInvalid(_)
RemoveInvalid(s) ==
  IF s = <<>> THEN <<>>
  ELSE IF InvalidLevel(Head(s)) THEN RemoveInvalid(Tail(s))
  ELSE <<Head(s)>> \o RemoveInvalid(Tail(s))

\* a bid comparator with the inequality turned round
BidBefore_Ascending(a, b) == DLess(a.price, b.price)

\* the comparators of lines 251-253 and 256-258
BidBefore(a, b) == DLess(b.price, a.price)
AskBefore(a, b) == DLess(a.price, b.price)

Rearrangements(s) ==
  {[i \in 1..Len(s) |-> s[f[i]]] :
     f \in {g \in [1..Len(s) -> 1..Len(s)] :
              \A i, j \in 1..Len(s) : i # j => g[i] # g[j]}}

\* with a NaN price the comparators are no strict weak ordering (NaN is
\* equivalent to every price, two different prices are not), which std::sort
\* requires: its result is then unspecified
HasNaN(s) == \E i \in 1..Len(s) : s[i].price.k = "nan"

\* std::sort is not stable: every rearrangement in which no element comes
\* before one that the comparator puts ahead of it is a possible result
SortedBids(s) ==
  IF HasNaN(s) THEN Rearrangements(s)
  ELSE {r \in Rearrangements(s) :
          \A i, j \in 1..Len(r) : i < j => ~BidBefore(r[j], r[i])}
SortedAsks(s) ==
  IF HasNaN(s) THEN Rearrangements(s)
  ELSE {r \in Rearrangements(s) :
          \A i, j \in 1..Len(r) : i < j => ~AskBefore(r[j], r[i])}

\* lines 829-877: collect the levels of the message, call updateOrderBook
ProcessOrderBook(t, b) ==
  /\ Active(t)
  /\ lpc[t] = "idle"
  /\ run # "analyzer_book" => ops < OpsBound
  /\ ops' = IF run # "analyzer_book" THEN ops + 1 ELSE ops
  /\ ingests' = IF run # "analyzer_book" THEN ingests + 1 ELSE ingests
  /\ larg' = [larg EXCEPT ![t].book = b]
  /\ lpc' = [lpc EXCEPT ![t] = "updateOrderBook"]
  /\ UNCHANGED <<trade_history, price_history, current_bids, current_asks,
                 data_mutex, liq_trade_count, lsnap, liq_feed, accepted,
                 uob_last>>
  /\ UNCHANGED <<tradesVars, run, now, lprev, call, result>>

\* line 232
UobAssignBids(t) ==
  /\ lpc[t] = "uob_bids"
  /\ current_bids' = larg[t].book.bids
  /\ lpc' = [lpc EXCEPT ![t] = "uob_asks"]
  /\ UNCHANGED <<trade_history, price_history, current_asks, data_mutex,
                 liq_trade_count, larg, lsnap, liq_feed, accepted, uob_last, ops>>
  /\ UNCHANGED <<tradesVars, run, envVars>>

\* line 233
UobAssignAsks(t) ==
  /\ lpc[t] = "uob_asks"
  /\ current_asks' = larg[t].book.asks
  /\ lpc' = [lpc EXCEPT ![t] = "uob_filter"]
  /\ UNCHANGED <<trade_history, price_history, current_bids, data_mutex,
                 liq_trade_count, larg, lsnap, liq_feed, accepted, uob_last, ops>>
  /\ UNCHANGED <<tradesVars, run, envVars>>

\* lines 235-247
UobRemoveInvalid(t) ==
  /\ lpc[t] = "uob_filter"
  /\ current_bids' = RemoveInvalid(current_bids)
  /\ current_asks' = RemoveInvalid(current_asks)
  /\ lpc' = [lpc EXCEPT ![t] = "uob_sort"]
  /\ UNCHANGED <<trade_history, price_history, data_mutex, liq_trade_count,
                 larg, lsnap, liq_feed, accepted, uob_last, ops>>
  /\ UNCHANGED <<tradesVars, run, envVars>>

\* lines 250-260
UobSort(t) ==
  /\ lpc[t] = "uob_sort"
  /\ current_bids' \in SortedBids(current_bids)
  /\ current_asks' \in SortedAsks(current_asks)
  /\ data_mutex' = Released(t)
  /\ larg' = [larg EXCEPT ![t] = NoArg]
  /\ lpc' = [lpc EXCEPT ![t] = "idle"]
  /\ UNCHANGED <<trade_history, price_history, liq_trade_count, lsnap,
                 liq_feed, accepted, uob_last, ops>>
  /\ UNCHANGED <<tradesVars, run, envVars>>

-----------------------------------------------------------------------------
(* liquidity_analyzer.cpp: the metric functions, in double arithmetic        *)

\* a level's price and size as the doubles the functions compute with
DF(d) == IF d.k = "nan" THEN FNaN ELSE FInt(d.v)
PriceOf(level) == DF(level.price)
SizeOf(level) == FInt(level.size)

\* std::accumulate(x.begin(), x.end(), 0.0), and += in a loop
RECURSIVE FSum(_)
FSum(x) ==
  IF Len(x) = 0 THEN FZero
  ELSE FAdd(FSum(SubSeq(x, 1, Len(x) - 1)), x[Len(x)])

\* calculateLinearRegression, lines 641-662: the least-squares slope of y on
\* x, 0 for fewer than two points or a zero denominator
calculateLinearRegression(x, y) ==
  IF Len(x) # Len(y) \/ Len(x) < 2 THEN FZero
  ELSE LET x_mean == FDiv(FSum(x), FInt(Len(x)))
           y_mean == FDiv(FSum(y), FInt(Len(y)))
           numerator ==
             FSum([i \in 1..Len(x) |->
                     FMul(FSub(x[i], x_mean), FSub(y[i], y_mean))])
           denominator ==
             FSum([i \in 1..Len(x) |->
                     FMul(FSub(x[i], x_mean), FSub(x[i], x_mean))])
       IN IF ~IsNaN(denominator) /\ denominator.v # 0 /\ ~IsNaN(numerator)
            THEN FDiv(numerator, denominator)
            ELSE FZero

\* the returns calculateRiskMetrics collects (lines 379-387), in units of
\* 1e-4: the log return of every consecutive pair of positive prices
RECURSIVE Returns(_)
Returns(prices) ==
  IF Len(prices) < 2 THEN <<>>
  ELSE LET n == Len(prices)
           earlier == Returns(SubSeq(prices, 1, n - 1))
       IN IF prices[n - 1] > 0 /\ prices[n] > 0
            THEN Append(earlier, LogE4(prices[n], prices[n - 1]))
            ELSE earlier

\* lines 412-414: min(ceil(n * 0.05), n - 1)
VarIndex(n) == Min((5 * n + 99) \div 100, n - 1)

\* lines 421-426: the returns at the indices below var_index are averaged
ShortfallCount(var_index) == var_index

\* calculateRiskMetrics, lines 372-427: value at risk and expected shortfall
\* (the two volatilities are not modelled); indices count from 0 in the code
\* and from 1 here
calculateRiskMetrics(metrics, prices) ==
  IF Len(prices) < 2 \/ Len(Returns(prices)) = 0 THEN metrics
  ELSE
    LET sorted_returns == SortAsc(Returns(prices))
        var_index == VarIndex(Len(sorted_returns))
        count == ShortfallCount(var_index)
        es_sum == FSum([i \in 1..count |-> FInt(sorted_returns[i])])
    IN [metrics EXCEPT
          !.var_95 = Value(FMul(FInt(sorted_returns[var_index + 1]),
                                FInt(100))),
          !.expected_shortfall_95 =
             IF var_index > 0
               THEN Value(FMul(FDiv(es_sum, FInt(count)), FInt(100)))
               ELSE @]

\* a fill that takes the whole level whatever is still wanted
Fill_WholeLevel(size, target_volume, cumulative_volume) == size

\* line 679: std::min(order.size, target_volume - cumulative_volume)
Fill(size, target_volume, cumulative_volume) ==
  FMin(size, FSub(target_volume, cumulative_volume))

\* the loop of lines 674-684
RECURSIVE VwapLoop(_, _, _, _)
VwapLoop(orders, target_volume, cumulative_volume, weighted_sum) ==
  IF orders = <<>> \/ FLessEq(target_volume, cumulative_volume)
    THEN [cumulative_volume |-> cumulative_volume,
          weighted_sum |-> weighted_sum]
    ELSE LET order == Head(orders)
             volume == Fill(SizeOf(order), target_volume, cumulative_volume)
         IN IF FLess(FZero, volume)
              THEN VwapLoop(Tail(orders), target_volume,
                            FAdd(cumulative_volume, volume),
                            FAdd(weighted_sum, FMul(PriceOf(order), volume)))
              ELSE VwapLoop(Tail(orders), target_volume,
                            cumulative_volume, weighted_sum)

\* calculateVWAP, lines 665-687
calculateVWAP(orders, target_volume) ==
  IF orders = <<>> \/ FLessEq(target_volume, FZero) THEN FZero
  ELSE LET r == VwapLoop(orders, target_volume, FZero, FZero)
       IN IF FLess(FZero, r.cumulative_volume)
            THEN FDiv(r.weighted_sum, r.cumulative_volume)
            ELSE FZero

\* calculateOrderBookSlope, lines 690-708: regression of the prices of the
\* top levels on their cumulative sizes
calculateOrderBookSlope(orders, depth) ==
  LET actual_depth == Min(depth, Len(orders))
  IN IF actual_depth < 2 THEN FZero
     ELSE calculateLinearRegression(
            [i \in 1..actual_depth |->
               FSum([j \in 1..i |-> SizeOf(orders[j])])],
            [i \in 1..actual_depth |-> PriceOf(orders[i])])

\* the default arguments of analyzeOrderBookLiquidity (lines 450-451); sizes
\* and volumes are in tenths
DEFAULT_DEPTH == 10
DEFAULT_SAMPLE_VOLUME == 10

\* a depth that takes every level whatever depth was asked for
DepthCount_All(depth, available) == available

\* lines 469-472: std::min(static_cast<size_t>(depth), side.size())
DepthCount(depth, available) == Min(depth, available)

\* analyzeOrderBookLiquidity, lines 450-508, on the view (bids, asks)
analyzeOrderBookLiquidity(metrics, bids, asks, depth, sample_volume) ==
  IF bids = <<>> \/ asks = <<>> THEN metrics
  ELSE
    LET best_bid == PriceOf(bids[1])
        best_ask == PriceOf(asks[1])
        spread == FSub(best_ask, best_bid)
        mid_price == FDiv(FAdd(best_ask, best_bid), FInt(2))
        bid_depth_count == DepthCount(depth, Len(bids))
        ask_depth_count == DepthCount(depth, Len(asks))
        bid_depth == FSum([i \in 1..bid_depth_count |-> SizeOf(bids[i])])
        ask_depth == FSum([i \in 1..ask_depth_count |-> SizeOf(asks[i])])
        bid_vwap == calculateVWAP(bids, sample_volume)
        ask_vwap == calculateVWAP(asks, sample_volume)
    IN [metrics EXCEPT
          !.spread = Value(spread),
          !.relative_spread =
             IF FLess(FZero, mid_price)
               THEN Value(FDiv(spread, mid_price)) ELSE @,
          !.bid_depth = Value(bid_depth),
          !.ask_depth = Value(ask_depth),
          !.order_book_imbalance =
             IF FLess(FZero, FAdd(bid_depth, ask_depth))
               THEN Value(FDiv(FSub(bid_depth, ask_depth),
                               FAdd(bid_depth, ask_depth)))
               ELSE @,
          !.bid_vwap = IF FLess(FZero, bid_vwap) THEN Value(bid_vwap) ELSE @,
          !.bid_slippage =
             IF FLess(FZero, bid_vwap)
               THEN Value(FDiv(FSub(best_bid, bid_vwap), best_bid)) ELSE @,
          !.ask_vwap = IF FLess(FZero, ask_vwap) THEN Value(ask_vwap) ELSE @,
          !.ask_slippage =
             IF FLess(FZero, ask_vwap)
               THEN Value(FDiv(FSub(ask_vwap, best_ask), best_ask)) ELSE @,
          !.bid_slope = Value(calculateOrderBookSlope(bids, depth)),
          !.ask_slope = Value(calculateOrderBookSlope(asks, depth))]

\* HOUR_IN_MS and DAY_IN_MS (lines 208-209); the model's clock counts hours
HOUR_IN_MS == 1
DAY_IN_MS == 24

\* a loop that does not filter by time
KylePairs_NoWindow(history, current_time, time_window_ms) ==
  {i \in 2..Len(history) :
     /\ history[i - 1].price > 0 /\ history[i].price > 0
     /\ Abs(LogE4(history[i].price, history[i - 1].price)) < 10000}

\* the pairs (i - 1, i) of the history that the loop of lines 277-301 keeps:
\* the later trade inside the window, both prices positive, the log return
\* finite and below 1 in magnitude
KylePairs(history, current_time, time_window_ms) ==
  {i \in 2..Len(history) :
     /\ ~(current_time - history[i].timestamp > time_window_ms)
     /\ history[i - 1].price > 0 /\ history[i].price > 0
     /\ Abs(LogE4(history[i].price, history[i - 1].price)) < 10000}

RECURSIVE Ascending(_)
Ascending(S) ==
  IF S = {} THEN <<>>
  ELSE LET m == CHOOSE x \in S : \A y \in S : x <= y
       IN <<m>> \o Ascending(S \ {m})

\* lines 295-298
SignedVolume(trade) ==
  FMul(FInt(trade.amount),
       IF trade.side = "buy" THEN FInt(1)
       ELSE IF trade.side = "sell" THEN FInt(-1) ELSE FZero)

\* calculateKylesLambda, lines 263-309
calculateKylesLambda(history, current_time, time_window_ms) ==
  IF Len(history) < 2 THEN FZero
  ELSE LET kept == Ascending(KylePairs(history, current_time, time_window_ms))
           log_returns ==
             [n \in 1..Len(kept) |->
                FDiv(FInt(LogE4(history[kept[n]].price,
                                history[kept[n] - 1].price)), FInt(10000))]
           signed_volumes ==
             [n \in 1..Len(kept) |-> SignedVolume(history[kept[n]])]
       IN IF Len(log_returns) < 2 THEN FZero
          ELSE calculateLinearRegression(signed_volumes, log_returns)

\* a loop that files a pair under the day of its later trade alone
AmihudPairs_AnyPreviousDay(history, current_time, period_ms, day) ==
  {i \in 2..Len(history) :
     /\ ~(current_time - history[i].timestamp > period_ms)
     /\ history[i].timestamp \div DAY_IN_MS = day
     /\ history[i - 1].price > 0
     /\ history[i].amount * history[i].price > 0}

\* the pairs that the loop of lines 328-349 adds to daily_data[day]
AmihudPairs(history, current_time, period_ms, day) ==
  {i \in 2..Len(history) :
     /\ ~(current_time - history[i].timestamp > period_ms)
     /\ history[i].timestamp \div DAY_IN_MS = day
     /\ history[i - 1].timestamp \div DAY_IN_MS = day
     /\ history[i - 1].price > 0
     /\ history[i].amount * history[i].price > 0}

\* calculateAmihudMeasure, lines 312-369: per calendar day the sum of
\* |price change| / previous price over the sum of amount * price, averaged
\* over the days that have a pair
calculateAmihudMeasure(history, current_time, period_days) ==
  IF Len(history) < 2 THEN FZero
  ELSE
    LET period_ms == period_days * DAY_IN_MS
        Pairs(day) ==
          Ascending(AmihudPairs(history, current_time, period_ms, day))
        days == Ascending({d \in {history[i].timestamp \div DAY_IN_MS :
                                    i \in 1..Len(history)} : Len(Pairs(d)) > 0})
        first(day) ==
          FSum([n \in 1..Len(Pairs(day)) |->
                  LET i == Pairs(day)[n]
                  IN FDiv(FInt(Abs(history[i].price - history[i - 1].price)),
                          FInt(history[i - 1].price))])
        second(day) ==
          FSum([n \in 1..Len(Pairs(day)) |->
                  LET i == Pairs(day)[n]
                  IN FMul(FInt(history[i].amount), FInt(history[i].price))])
        total_amihud ==
          FSum([n \in 1..Len(days) |-> FDiv(first(days[n]), second(days[n]))])
    IN IF Len(days) = 0 THEN FZero
       ELSE FDiv(total_amihud, FInt(Len(days)))

-----------------------------------------------------------------------------
(* LiquidityAnalyzer::performComprehensiveAnalysis: seven calls, each of     *)
(* which locks data_mutex for itself (lines 511-530)                         *)

\* a snapshot that takes data_mutex itself before the first call
PerformComprehensiveAnalysis_Locked(t) ==
  /\ run \in {"analyzer_mt", "analyzer_clock"}
  /\ Active(t)
  /\ lpc[t] = "idle"
  /\ ops < OpsBound
  /\ MutexFree
  /\ data_mutex' = t
  /\ ops' = ops + 1
  /\ lsnap' = [lsnap EXCEPT ![t] = [NoSnap EXCEPT !.at = ingests]]
  /\ lprev' = [lprev EXCEPT ![t] = IF lsnap[t].done THEN lsnap[t] ELSE @]
  /\ lpc' = [lpc EXCEPT ![t] = "calculateRiskMetrics"]
  /\ UNCHANGED <<trade_history, price_history, current_bids, current_asks,
                 liq_trade_count, larg, liq_feed, accepted, uob_last>>
  /\ UNCHANGED <<tradesVars, run, now, ingests, call, result>>

\* lines 511-515: a fresh LiquidityMetrics, then the first call
PerformComprehensiveAnalysis(t) ==
  /\ run \in {"analyzer_mt", "analyzer_clock"}
  /\ Active(t)
  /\ lpc[t] = "idle"
  /\ ops < OpsBound
  /\ ops' = ops + 1
  /\ lsnap' = [lsnap EXCEPT ![t] = [NoSnap EXCEPT !.at = ingests]]
  /\ lprev' = [lprev EXCEPT ![t] = IF lsnap[t].done THEN lsnap[t] ELSE @]
  /\ lpc' = [lpc EXCEPT ![t] = "calculateRiskMetrics"]
  /\ UNCHANGED <<trade_history, price_history, current_bids, current_asks,
                 data_mutex, liq_trade_count, larg, liq_feed, accepted,
                 uob_last>>
  /\ UNCHANGED <<tradesVars, run, now, ingests, call, result>>

LiqData == <<trade_history, price_history, current_bids, current_asks>>

\* calculateRiskMetrics (lines 372-447) reads price_history
CalculateRiskMetrics(t) ==
  /\ lpc[t] = "risk_cs"
  /\ lsnap' = [lsnap EXCEPT
                 ![t].risk = price_history,
                 ![t].metrics = calculateRiskMetrics(@, price_history)]
  /\ data_mutex' = Released(t)
  /\ lpc' = [lpc EXCEPT ![t] = "analyzeOrderBookLiquidity"]
  /\ price_history' = AfterRead(price_history)
  /\ UNCHANGED <<trade_history, current_bids, current_asks>>
  /\ UNCHANGED <<liq_trade_count, larg, liq_feed, accepted, uob_last, ops>>
  /\ UNCHANGED <<tradesVars, run, envVars>>

\* analyzeOrderBookLiquidity (lines 450-508) reads current_bids, current_asks
AnalyzeOrderBookLiquidity(t) ==
  /\ lpc[t] = "book_cs"
  /\ lsnap' = [lsnap EXCEPT
                 ![t].book = Book(current_bids, current_asks),
                 ![t].metrics =
                    analyzeOrderBookLiquidity(@, current_bids, current_asks,
                                              DEFAULT_DEPTH,
                                              FInt(DEFAULT_SAMPLE_VOLUME))]
  /\ data_mutex' = Released(t)
  /\ lpc' = [lpc EXCEPT ![t] = "calculateKylesLambda_daily"]
  /\ current_bids' = AfterRead(current_bids)
  /\ current_asks' = AfterRead(current_asks)
  /\ UNCHANGED <<trade_history, price_history>>
  /\ UNCHANGED <<liq_trade_count, larg, liq_feed, accepted, uob_last, ops>>
  /\ UNCHANGED <<tradesVars, run, envVars>>

\* calculateKylesLambda (lines 263-309) reads trade_history; called with
\* DAY_IN_MS, then with HOUR_IN_MS
CalculateKylesLambda(t) ==
  /\ lpc[t] \in {"kyle_daily_cs", "kyle_hourly_cs"}
  /\ IF lpc[t] = "kyle_daily_cs"
       THEN /\ lsnap' = [lsnap EXCEPT
                           ![t].kyle_daily = trade_history,
                           ![t].metrics.kyles_lambda_daily =
                              Value(calculateKylesLambda(trade_history, now,
                                                         DAY_IN_MS))]
            /\ lpc' = [lpc EXCEPT ![t] = "calculateKylesLambda_hourly"]
       ELSE /\ lsnap' = [lsnap EXCEPT
                           ![t].kyle_hourly = trade_history,
                           ![t].metrics.kyles_lambda_hourly =
                              Value(calculateKylesLambda(trade_history, now,
                                                         HOUR_IN_MS))]
            /\ lpc' = [lpc EXCEPT ![t] = "calculateAmihudMeasure_1"]
  /\ data_mutex' = Released(t)
  /\ trade_history' = AfterRead(trade_history)
  /\ UNCHANGED <<price_history, current_bids, current_asks>>
  /\ UNCHANGED <<liq_trade_count, larg, liq_feed, accepted, uob_last, ops>>
  /\ UNCHANGED <<tradesVars, run, envVars>>

\* calculateAmihudMeasure (lines 312-369) reads trade_history; called with
\* 1, 30 and 90 days; the last call completes the snapshot
CalculateAmihudMeasure(t) ==
  /\ lpc[t] \in {"amihud_1_cs", "amihud_30_cs", "amihud_90_cs"}
  /\ CASE lpc[t] = "amihud_1_cs" ->
            /\ lsnap' = [lsnap EXCEPT
                           ![t].amihud_1 = trade_history,
                           ![t].metrics.amihud_one_day =
                              Value(calculateAmihudMeasure(trade_history, now, 1))]
            /\ lpc' = [lpc EXCEPT ![t] = "calculateAmihudMeasure_30"]
       [] lpc[t] = "amihud_30_cs" ->
            /\ lsnap' = [lsnap EXCEPT
                           ![t].amihud_30 = trade_history,
                           ![t].metrics.amihud_thirty_days =
                              Value(calculateAmihudMeasure(trade_history, now, 30))]
            /\ lpc' = [lpc EXCEPT ![t] = "calculateAmihudMeasure_90"]
       [] OTHER ->
            /\ lsnap' = [lsnap EXCEPT
                           ![t].amihud_90 = trade_history,
                           ![t].metrics.amihud_ninety_days =
                              Value(calculateAmihudMeasure(trade_history, now, 90)),
                           ![t].done = TRUE]
            /\ lpc' = [lpc EXCEPT ![t] = "idle"]
  /\ data_mutex' = Released(t)
  /\ trade_history' = AfterRead(trade_history)
  /\ UNCHANGED <<price_history, current_bids, current_asks>>
  /\ UNCHANGED <<liq_trade_count, larg, liq_feed, accepted, uob_last, ops>>
  /\ UNCHANGED <<tradesVars, run, envVars>>

-----------------------------------------------------------------------------
(* The runs *)

\* no function is being called by itself
NoCall == [fn |-> "none"]
NoResult == [returned |-> FALSE]
Returned(x) == [returned |-> TRUE, value |-> x]

EnvInit ==
  /\ now = 0
  /\ ingests = 0
  /\ lprev = [t \in LThreads |-> NoSnap]
  /\ call = NoCall
  /\ result = NoResult

InitTrades == run = "trades" /\ TradesInit /\ LiqInit /\ EnvInit
InitTradesMT == run = "trades_mt" /\ TradesInit /\ LiqInit /\ EnvInit
InitAnalyzer == run = "analyzer_mt" /\ TradesInit /\ LiqInit /\ EnvInit
InitBook == run = "analyzer_book" /\ TradesInit /\ LiqInit /\ EnvInit

\* liquidity_analyzer fed order books only, by one thread
BookNext ==
  \/ \E t \in LThreads, b \in BookInputs : ProcessOrderBook(t, b)
  \/ \E t \in LThreads : AcquireMutex(t)
  \/ \E t \in LThreads : UobAssignBids(t)
  \/ \E t \in LThreads : UobAssignAsks(t)
  \/ \E t \in LThreads : UobRemoveInvalid(t)
  \/ \E t \in LThreads : UobSort(t)

\* liquidity_analyzer with two feed threads: trades, order books, snapshots
AnalyzerNext ==
  \/ BookNext
  \/ \E t \in LThreads, m \in LiqTradeInputs : ProcessTrade(t, m)
  \/ \E t \in LThreads : PerformComprehensiveAnalysis(t)
  \/ \E t \in LThreads : AddTradeHistory(t)
  \/ \E t \in LThreads : AddTradePrice(t)
  \/ \E t \in LThreads : CountTrade(t)
  \/ \E t \in LThreads : CalculateRiskMetrics(t)
  \/ \E t \in LThreads : AnalyzeOrderBookLiquidity(t)
  \/ \E t \in LThreads : CalculateKylesLambda(t)
  \/ \E t \in LThreads : CalculateAmihudMeasure(t)

\* what thread t does once it is inside an operation: wait for data_mutex,
\* run the locked scope, count the trade, go on to the next call
ThreadStep(t) ==
  \/ AcquireMutex(t)
  \/ UobAssignBids(t) \/ UobAssignAsks(t) \/ UobRemoveInvalid(t) \/ UobSort(t)
  \/ AddTradeHistory(t) \/ AddTradePrice(t) \/ CountTrade(t)
  \/ CalculateRiskMetrics(t) \/ AnalyzeOrderBookLiquidity(t)
  \/ CalculateKylesLambda(t) \/ CalculateAmihudMeasure(t)

\* the positions of a thread
LPositions == {"idle", "count"} \cup DOMAIN LockEntry \cup InCS

\* thread t is inside an operation and is not waiting for a mutex that is held
Runnable(t) ==
  /\ lpc[t] # "idle"
  /\ lpc[t] \in DOMAIN LockEntry => MutexFree

\* thread t moves on: the steps of ThreadStep(t) are the steps that change
\* the position of a thread that is inside an operation
Scheduled(t) ==
  /\ Runnable(t)
  /\ \E p \in LPositions \ {lpc[t]} : lpc' = [lpc EXCEPT ![t] = p]

\* a thread that can take a step is eventually scheduled
FairScheduling == \A t \in LThreads : WF_lpc(Scheduled(t))

SpecTrades == InitTrades /\ [][TradesNext]_vars
SpecTradesMT == InitTradesMT /\ [][TradesMTNext]_vars
\* the two feed threads under fair scheduling: a trade that is accepted, a
\* trade that is rejected, an order book, and snapshots
FairNext ==
  \/ \E t \in LThreads :
       ProcessTrade(t, [price |-> 100, amount |-> 10, side |-> "buy"])
  \/ \E t \in LThreads :
       ProcessTrade(t, [price |-> 0, amount |-> 10, side |-> "buy"])
  \/ \E t \in LThreads : ProcessOrderBook(t, BookA)
  \/ \E t \in LThreads : PerformComprehensiveAnalysis(t)
  \/ \E t \in LThreads : ThreadStep(t)

SpecAnalyzerFair == InitAnalyzer /\ [][FairNext]_vars /\ FairScheduling
SpecAnalyzer == InitAnalyzer /\ [][AnalyzerNext]_vars
SpecBook == InitBook /\ [][BookNext]_vars

\* std::chrono::system_clock: a day passes, at any moment
Tick ==
  /\ run = "analyzer_clock"
  /\ now < MaxClock
  /\ now' = now + DAY_IN_MS
  /\ UNCHANGED <<tradesVars, liqVars, run, ingests, lprev, call, result>>

\* the two programs with two threads each, each run by itself
InitReaders == run \in {"trades_mt", "analyzer_mt"} /\ TradesInit /\ LiqInit /\ EnvInit
SpecReaders == InitReaders /\ [][TradesMTNext \/ AnalyzerNext]_vars

\* liquidity_analyzer with one feed thread and a clock that advances
InitClock == run = "analyzer_clock" /\ TradesInit /\ LiqInit /\ EnvInit
ClockNext == AnalyzerNext \/ Tick
SpecClock == InitClock /\ [][ClockNext]_vars

-----------------------------------------------------------------------------
(* The metric functions called by themselves, on every argument of a        *)
(* bounded set                                                               *)

\* levels for the sides of a view: sizes 29 and 40 make price * volume
\* inexact in MantissaBits bits
MetricLevels ==
  { Level(9, 29), Level(9, 40), Level(99, 7), Level(100, 10), Level(101, 30),
    OrderBookLevel(NaN, 10) }

\* the sides updateOrderBook can leave in the view
MetricSides ==
  UNION {SortedBids(RemoveInvalid(s)) \cup SortedAsks(RemoveInvalid(s)) :
           s \in SeqsUpTo(MetricLevels, MaxLevels)}

TargetVolumes == {FInt(n) : n \in {-1, 0, 1, 7, 10, 29, 30, 40, 50}}

InitVWAP ==
  /\ run = "calculateVWAP"
  /\ TradesInit /\ LiqInit
  /\ now = 0 /\ ingests = 0 /\ lprev = [t \in LThreads |-> NoSnap]
  /\ call \in [fn : {"calculateVWAP"}, orders : MetricSides,
               target_volume : TargetVolumes]
  /\ result = NoResult

Call_calculateVWAP ==
  /\ run = "calculateVWAP"
  /\ ~result.returned
  /\ result' = Returned(calculateVWAP(call.orders, call.target_volume))
  /\ UNCHANGED <<tradesVars, liqVars, run, now, ingests, lprev, call>>

SpecVWAP == InitVWAP /\ [][Call_calculateVWAP]_vars

\* the sides of the views analyzeOrderBookLiquidity is called on; the levels
\* of size 3 are smaller than the sample volume and make price * size inexact
\* in MantissaBits bits
BidLevels == {Level(100, 20), Level(99, 50), Level(9, 29), Level(97, 3)}
AskLevels == {Level(101, 30), Level(102, 40), OrderBookLevel(NaN, 10),
              Level(103, 3)}
BidSides ==
  UNION {SortedBids(RemoveInvalid(s)) : s \in SeqsUpTo(BidLevels, MaxLevels)}
AskSides ==
  UNION {SortedAsks(RemoveInvalid(s)) : s \in SeqsUpTo(AskLevels, MaxLevels)}
Depths == {1, 2, DEFAULT_DEPTH}

InitLiquidity ==
  /\ run = "analyzeOrderBookLiquidity"
  /\ TradesInit /\ LiqInit
  /\ now = 0 /\ ingests = 0 /\ lprev = [t \in LThreads |-> NoSnap]
  /\ call \in [fn : {"analyzeOrderBookLiquidity"}, bids : BidSides,
               asks : AskSides, depth : Depths,
               sample_volume : {FInt(DEFAULT_SAMPLE_VOLUME)}]
  /\ result = NoResult

\* the call on a default-constructed LiquidityMetrics, as line 512 and 518
Call_analyzeOrderBookLiquidity ==
  /\ run = "analyzeOrderBookLiquidity"
  /\ ~result.returned
  /\ result' = Returned(analyzeOrderBookLiquidity(
                          LiquidityMetrics, call.bids, call.asks, call.depth,
                          call.sample_volume))
  /\ UNCHANGED <<tradesVars, liqVars, run, now, ingests, lprev, call>>

SpecLiquidity == InitLiquidity /\ [][Call_analyzeOrderBookLiquidity]_vars

\* liquidity_analyzer fed trades only, by two threads, long enough for the
\* counter of line 717 to pass 200: one trade that the guard of line 814
\* accepts and one that it rejects
CountTradeInputs ==
  { [price |-> 100, amount |-> 10, side |-> "buy"],
    [price |-> 0, amount |-> 10, side |-> "buy"] }

InitCount == run = "analyzer_count" /\ TradesInit /\ LiqInit /\ EnvInit

CountedTrade(t, m) ==
  /\ run = "analyzer_count"
  /\ IF TradeAccepted(m) THEN ingests < MaxCounted
                         ELSE ops - ingests < MaxRejected
  /\ ProcessTrade(t, m)

CountNext ==
  \/ \E t \in LThreads, m \in CountTradeInputs : CountedTrade(t, m)
  \/ \E t \in LThreads : run = "analyzer_count" /\ AcquireMutex(t)
  \/ \E t \in LThreads : run = "analyzer_count" /\ AddTradeHistory(t)
  \/ \E t \in LThreads : run = "analyzer_count" /\ AddTradePrice(t)
  \/ \E t \in LThreads : run = "analyzer_count" /\ CountTrade(t)
  \/ \E t \in LThreads : run = "analyzer_count" /\ CalculateRiskMetrics(t)
  \/ \E t \in LThreads : run = "analyzer_count" /\ AnalyzeOrderBookLiquidity(t)
  \/ \E t \in LThreads : run = "analyzer_count" /\ CalculateKylesLambda(t)
  \/ \E t \in LThreads : run = "analyzer_count" /\ CalculateAmihudMeasure(t)

SpecCount == InitCount /\ [][CountNext]_vars

\* trade histories for calculateKylesLambda: accepted trades in arrival
\* order, stamped long before, a little before and just before the clock
\* reading KyleClock
MaxCallHistory == 3
KyleClock == {32}
HistoryTimes == {0, 30, 31}
HistoryTrades ==
  {Trade(p, m.amount, ts, m.side) :
     p \in {100, 101},
     m \in {[amount |-> 10, side |-> "buy"], [amount |-> 20, side |-> "sell"]},
     ts \in HistoryTimes}
Histories ==
  {h \in SeqsUpTo(HistoryTrades, MaxCallHistory) :
     \A i \in 1..Len(h) - 1 : h[i].timestamp <= h[i + 1].timestamp}

InitKyle ==
  /\ run = "calculateKylesLambda"
  /\ TradesInit /\ LiqInit
  /\ now \in KyleClock /\ ingests = 0 /\ lprev = [t \in LThreads |-> NoSnap]
  /\ call \in [fn : {"calculateKylesLambda"}, history : Histories,
               time_window_ms : {HOUR_IN_MS, DAY_IN_MS}]
  /\ result = NoResult

\* the call reads trade_history (here call.history) and the system clock
Call_calculateKylesLambda ==
  /\ run = "calculateKylesLambda"
  /\ ~result.returned
  /\ result' = Returned(calculateKylesLambda(call.history, now,
                                             call.time_window_ms))
  /\ UNCHANGED <<tradesVars, liqVars, run, now, ingests, lprev, call>>

SpecKyle == InitKyle /\ [][Call_calculateKylesLambda]_vars

\* windows for detectSizeAnomaly: n - 1 trades of one volume and then the
\* trade just ingested, with the large-trade threshold that
\* updateAdaptiveThresholds has left for that window in a new handler;
\* std::stod hands volumes of any sign to the handler, which stores them
MaxSizeWindow == 12
WindowVolumes == {-10, 5, 10, 70}
LastVolumes == {-10, 5, 10, 11, 40, 70}
SizeWindows ==
  {[i \in 1..n |-> TradeData(BaseTrade.price, IF i = n THEN b ELSE a, i)] :
     n \in 1..MaxSizeWindow, a \in WindowVolumes, b \in LastVolumes}
ThresholdsFor(w) ==
  updateAdaptiveThresholds(w, [large |-> LARGE_TRADE_INIT,
                               move |-> PRICE_MOVE_INIT])

InitSizeAnomaly ==
  /\ run = "detectSizeAnomaly"
  /\ TradesInit /\ LiqInit
  /\ now = 0 /\ ingests = 0 /\ lprev = [t \in LThreads |-> NoSnap]
  /\ call \in {[fn |-> "detectSizeAnomaly", window |-> w,
                 current_volume |-> w[Len(w)].volume,
                 large_trade_threshold |-> ThresholdsFor(w).large] :
                w \in SizeWindows}
  /\ result = NoResult

\* line 107, after lines 91-103
Call_detectSizeAnomaly ==
  /\ run = "detectSizeAnomaly"
  /\ ~result.returned
  /\ result' = Returned(detectSizeAnomaly(call.window, call.current_volume,
                                          call.large_trade_threshold))
  /\ UNCHANGED <<tradesVars, liqVars, run, now, ingests, lprev, call>>

SpecSizeAnomaly == InitSizeAnomaly /\ [][Call_detectSizeAnomaly]_vars

\* trade histories for calculateAmihudMeasure: accepted trades in arrival
\* order on three calendar days (hours 0-23, 24-47, 48-71), read at hour
\* AmihudClock with a period of one, two or thirty days
MaxAmihudHistory == 4
AmihudClock == {60}
AmihudTimes == {2, 23, 25, 30, 50}
AmihudTrades ==
  {Trade(m.price, m.amount, ts, "buy") :
     m \in {[price |-> 100, amount |-> 10], [price |-> 101, amount |-> 10],
            [price |-> 100, amount |-> 20]},
     ts \in AmihudTimes}
AmihudHistories ==
  {h \in SeqsUpTo(AmihudTrades, MaxAmihudHistory) :
     \A i \in 1..Len(h) - 1 : h[i].timestamp <= h[i + 1].timestamp}

InitAmihud ==
  /\ run = "calculateAmihudMeasure"
  /\ TradesInit /\ LiqInit
  /\ now \in AmihudClock /\ ingests = 0 /\ lprev = [t \in LThreads |-> NoSnap]
  /\ call \in [fn : {"calculateAmihudMeasure"}, history : AmihudHistories,
               period_days : {1, 2, 30}]
  /\ result = NoResult

\* the call reads trade_history (here call.history) and the system clock
Call_calculateAmihudMeasure ==
  /\ run = "calculateAmihudMeasure"
  /\ ~result.returned
  /\ result' = Returned(calculateAmihudMeasure(call.history, now,
                                               call.period_days))
  /\ UNCHANGED <<tradesVars, liqVars, run, now, ingests, lprev, call>>

SpecAmihud == InitAmihud /\ [][Call_calculateAmihudMeasure]_vars

\* price histories for calculateRiskMetrics: a cycle of three prices, cut
\* at every length up to MaxPriceHistory (21 returns make the VaR index 2)
MaxPriceHistory == 22
PriceCycles == [1..3 -> {100, 101, 102}]
PriceHistories ==
  {[i \in 1..n |-> c[((i - 1) % 3) + 1]] :
     n \in 0..MaxPriceHistory, c \in PriceCycles}

InitRisk ==
  /\ run = "calculateRiskMetrics"
  /\ TradesInit /\ LiqInit
  /\ now = 0 /\ ingests = 0 /\ lprev = [t \in LThreads |-> NoSnap]
  /\ call \in [fn : {"calculateRiskMetrics"}, price_history : PriceHistories]
  /\ result = NoResult

\* the call on a default-constructed LiquidityMetrics, as lines 512 and 515
Call_calculateRiskMetrics ==
  /\ run = "calculateRiskMetrics"
  /\ ~result.returned
  /\ result' = Returned(calculateRiskMetrics(LiquidityMetrics,
                                             call.price_history))
  /\ UNCHANGED <<tradesVars, liqVars, run, now, ingests, lprev, call>>

SpecRisk == InitRisk /\ [][Call_calculateRiskMetrics]_vars

-----------------------------------------------------------------------------
(* Every run *)

Runs == {"trades", "trades_mt", "analyzer_mt", "analyzer_book",
         "analyzer_clock", "analyzer_count"}

Init ==
  \/ run \in Runs /\ TradesInit /\ LiqInit /\ EnvInit
  \/ InitVWAP
  \/ InitLiquidity
  \/ InitKyle
  \/ InitSizeAnomaly
  \/ InitRisk
  \/ InitAmihud

FunctionNext ==
  \/ Call_calculateVWAP
  \/ Call_analyzeOrderBookLiquidity
  \/ Call_calculateKylesLambda
  \/ Call_detectSizeAnomaly
  \/ Call_calculateRiskMetrics
  \/ Call_calculateAmihudMeasure

Next ==
  TradesNext \/ TradesMTNext \/ ClockNext \/ CountNext \/ FunctionNext

Spec == Init /\ [][Next]_vars

-----------------------------------------------------------------------------
(* Properties *)

LastN(s, n) == SubSeq(s, Len(s) - Min(Len(s), n) + 1, Len(s))
Prices(h) == [i \in 1..Len(h) |-> h[i].price]
Count(s, x) == Cardinality({i \in 1..Len(s) : s[i] = x})

\* the two programs that keep a rolling window, each run by itself
InitWindows == run \in {"trades", "analyzer_mt"} /\ TradesInit /\ LiqInit /\ EnvInit
SpecWindows == InitWindows /\ [][TradesNext \/ AnalyzerNext]_vars

\* C1: the rolling windows never exceed their capacity and hold exactly the
\* most recent stored trades in insertion order: recent_trades is the last
\* AVERAGE_WINDOW_SIZE elements delivered to processEvent, trade_history the
\* last MAX_TRADE_HISTORY trades stored by addTrade, and price_history their
\* prices once the addTrade call has finished.
C1_WindowsBoundedFifo ==
  /\ Len(recent_trades) <= AVERAGE_WINDOW_SIZE
  /\ recent_trades = LastN(feed, AVERAGE_WINDOW_SIZE)
  /\ Len(trade_history) <= MAX_TRADE_HISTORY
  /\ Len(price_history) <= MAX_TRADE_HISTORY
  /\ trade_history = LastN(accepted, MAX_TRADE_HISTORY)
  /\ (\A t \in LThreads : lpc[t] # "add_price")
       => price_history = Prices(LastN(accepted, MAX_TRADE_HISTORY))

\* the window of trades.cpp has evicted its two oldest elements
C1_Witness ==
  /\ Len(feed) = AVERAGE_WINDOW_SIZE + 2
  /\ Len(recent_trades) = AVERAGE_WINDOW_SIZE
  /\ recent_trades[1].timestamp = 3

\* C2: only a trade with price > 0 and amount > 0 is ever appended to a
\* window, on both ingestion paths (recent_trades of trades.cpp and
\* trade_history / price_history of LiquidityAnalyzer).
C2_OnlyValidTradesStored ==
  /\ \A i \in 1..Len(recent_trades) :
       recent_trades[i].price > 0 /\ recent_trades[i].volume > 0
  /\ \A i \in 1..Len(trade_history) :
       trade_history[i].price > 0 /\ trade_history[i].amount > 0
  /\ \A i \in 1..Len(price_history) : price_history[i] > 0

\* C3: a step that is handed a trade with price <= 0 or amount <= 0 leaves
\* the windows, the price history, the EWMA state, both thresholds and the
\* trade counters as they were.
C3_RejectedTradeChangesNothing ==
  [][ /\ (Len(feed') > Len(feed) /\ ~ValidTrade(feed'[Len(feed')]))
          => UNCHANGED TState
      /\ (Len(liq_feed') > Len(liq_feed)
            /\ ~TradeAccepted(liq_feed'[Len(liq_feed')]))
          => UNCHANGED <<trade_history, price_history, liq_trade_count>> ]_vars

\* C4: when a thread classifies its trade T (lines 106-108), the newest
\* element of recent_trades is T: the state it reads contains no later trade.
C4_ClassifiesOwnIngestion ==
  \A t \in TThreads :
    tpc[t] = "detect" =>
      /\ recent_trades # <<>>
      /\ recent_trades[Len(recent_trades)] = tmsg[t]

\* C5: every value of a finished snapshot was derived from the same trade
\* history and price history: the price history read by calculateRiskMetrics
\* is the price list of the trade history read by calculateKylesLambda and
\* calculateAmihudMeasure, and these five reads saw the same history.
C5_SnapshotFromOneState ==
  \A t \in LThreads :
    lsnap[t].done =>
      /\ lsnap[t].risk = Prices(lsnap[t].kyle_daily)
      /\ lsnap[t].kyle_hourly = lsnap[t].kyle_daily
      /\ lsnap[t].amihud_1 = lsnap[t].kyle_daily
      /\ lsnap[t].amihud_30 = lsnap[t].kyle_daily
      /\ lsnap[t].amihud_90 = lsnap[t].kyle_daily

\* a handler thread of trades.cpp that has begun and not finished its
\* accesses to the shared members
TInOperation(t) == tpc[t] \in {"ewma", "evict", "thresholds", "detect"}

\* C6: no two operations touch the state of one symbol at the same time: at
\* most one thread is inside processEvent's accesses to the members of
\* MyEventHandler, and at most one thread is inside a lock_guard scope of
\* LiquidityAnalyzer, which then holds data_mutex.
C6_OneOperationAtATime ==
  /\ Cardinality({t \in TThreads : TInOperation(t)}) <= 1
  /\ Cardinality({t \in LThreads : lpc[t] \in InCS}) <= 1
  /\ \A t \in LThreads : lpc[t] \in InCS => data_mutex = t

UpdateInProgress ==
  \E t \in LThreads : lpc[t] \in {"uob_bids", "uob_asks", "uob_filter", "uob_sort"}

\* the levels of an argument list with price > 0 and size > 0
PositiveLevels(s) ==
  SelectSeq(s, LAMBDA l : DGreaterZero(l.price) /\ l.size > 0)

DistinctPrices(s) ==
  \A i, j \in 1..Len(s) : i # j => s[i].price # s[j].price

C8_StoresExactlyValidLevels ==
  /\ \A t \in LThreads :
       /\ lpc[t] = "uob_bids" => ENABLED UobAssignBids(t)
       /\ lpc[t] = "uob_asks" => ENABLED UobAssignAsks(t)
       /\ lpc[t] = "uob_filter" => ENABLED UobRemoveInvalid(t)
       /\ lpc[t] = "uob_sort" => ENABLED UobSort(t)
  /\ ~UpdateInProgress =>
       /\ Len(current_bids) = Len(PositiveLevels(uob_last.bids))
       /\ Len(current_asks) = Len(PositiveLevels(uob_last.asks))
       /\ \A l \in Levels \cup {FixedSide[i] : i \in 1..Len(FixedSide)} :
            IF DGreaterZero(l.price) /\ l.size > 0
              THEN /\ Count(current_bids, l) = Count(uob_last.bids, l)
                   /\ Count(current_asks, l) = Count(uob_last.asks, l)
              ELSE /\ Count(current_bids, l) = 0
                   /\ Count(current_asks, l) = 0

NormalizedBids(s) == SortedBids(RemoveInvalid(s))
NormalizedAsks(s) == SortedAsks(RemoveInvalid(s))
IsNormalized(view, b) ==
  view.bids \in NormalizedBids(b.bids) /\ view.asks \in NormalizedAsks(b.asks)

\* C9: the view is replaced wholesale, last writer wins: whenever no update
\* is inside its critical section, both stored sides are the normalized
\* arguments of the call that took data_mutex last; and the view read by
\* analyzeOrderBookLiquidity is always the normalized form of one single
\* update (or the empty initial view), never bids of one and asks of another.
C9_LastWriterWins ==
  /\ ~UpdateInProgress =>
       IsNormalized(Book(current_bids, current_asks), uob_last)
  /\ \A t \in LThreads :
       \E b \in {EmptyBook, BookA, BookB} : IsNormalized(lsnap[t].book, b)

\* a reader saw the view of BookA, and a later update installed BookB whole
C9_Witness ==
  /\ ~UpdateInProgress
  /\ uob_last = BookB
  /\ \E t \in LThreads :
       /\ lsnap[t].book.bids # <<>>
       /\ IsNormalized(lsnap[t].book, BookA)
  /\ IsNormalized(Book(current_bids, current_asks), BookB)
  /\ ~IsNormalized(Book(current_bids, current_asks), BookA)

\* C10: the EWMA variance is finite and >= 0 in every state.
C10_VarianceFiniteNonNegative ==
  ewma_variance.k = "fin" /\ ewma_variance.v >= 0

\* the product of two doubles is a double, so that the multiplication does
\* not round
ExactProduct(a, b) == FMul(a, b) = FNorm(a.v * b.v, a.e + b.e)

\* calculateVWAP has returned for a non-empty side of positive levels and a
\* target volume of at most the first level's size
VwapWithinFirstLevel ==
  /\ run = "calculateVWAP"
  /\ result.returned
  /\ call.orders # <<>>
  /\ PositiveLevels(call.orders) = call.orders
  /\ FLessEq(call.target_volume, SizeOf(call.orders[1]))

\* C14 as stated: VWAP(levels, targetVolume) with targetVolume <= the first
\* level's size returns exactly that first level's price, for every non-empty
\* normalized side and every such targetVolume.
C14_VwapIsFirstPrice ==
  VwapWithinFirstLevel => result.value = PriceOf(call.orders[1])

\* C14 amended: for a non-empty normalized side and a target volume of at most
\* the first level's size, calculateVWAP returns 0 when the target is <= 0
\* and otherwise (price * target) / target as doubles compute it, which is
\* the first level's price whenever price * target is exact.
C14_VwapWithinFirstLevel ==
  VwapWithinFirstLevel =>
    LET price == PriceOf(call.orders[1])
        target == call.target_volume
    IN IF FLessEq(target, FZero) THEN result.value = FZero
       ELSE /\ result.value = FDiv(FMul(price, target), target)
            /\ ExactProduct(price, target) => result.value = price

\* a fill inside the first level of a two-level side whose result is not the
\* first level's price
C14_Witness ==
  /\ VwapWithinFirstLevel
  /\ Len(call.orders) = 2
  /\ FLess(FZero, call.target_volume)
  /\ result.value # PriceOf(call.orders[1])

\* analyzeOrderBookLiquidity has returned
LiquidityReturned == run = "analyzeOrderBookLiquidity" /\ result.returned

\* C13: when either side of the view is empty, every liquidity output of
\* analyzeOrderBookLiquidity (spread, relative spread, depths, imbalance,
\* VWAPs, slippages, slopes) is absent, none is reported as a value.
C13_EmptySideAllAbsent ==
  (LiquidityReturned /\ (call.bids = <<>> \/ call.asks = <<>>)) =>
    \A f \in BookFields : ~result.value[f].has

\* the example of C16
ExampleBids == <<Level(100, 20), Level(99, 50)>>
ExampleAsks == <<Level(101, 30), Level(102, 40)>>

\* C16: for a view with both sides non-empty, spread = best_ask - best_bid,
\* depth(side, N) = the sum of the sizes of the top min(N, available) levels
\* and imbalance = (bid_depth - ask_depth) / (bid_depth + ask_depth); bids
\* [(100, 2), (99, 5)] and asks [(101, 3), (102, 4)] give spread 1, depths 7
\* and 7, imbalance 0.
C16_SpreadDepthImbalance ==
  (LiquidityReturned /\ call.bids # <<>> /\ call.asks # <<>>) =>
    LET TopSizes(side) ==
          [i \in 1..Min(call.depth, Len(side)) |-> SizeOf(side[i])]
        bid_depth == FSum(TopSizes(call.bids))
        ask_depth == FSum(TopSizes(call.asks))
        m == result.value
    IN /\ m.spread = Value(FSub(PriceOf(call.asks[1]), PriceOf(call.bids[1])))
       /\ m.bid_depth = Value(bid_depth)
       /\ m.ask_depth = Value(ask_depth)
       /\ m.order_book_imbalance =
            Value(FDiv(FSub(bid_depth, ask_depth), FAdd(bid_depth, ask_depth)))
       /\ (call.bids = ExampleBids /\ call.asks = ExampleAsks
             /\ call.depth >= 2) =>
            /\ m.spread = Value(FInt(1))
            /\ m.bid_depth = Value(FInt(70))
            /\ m.ask_depth = Value(FInt(70))
            /\ m.order_book_imbalance = Value(FZero)

\* the example has been analysed, and so has a view deeper than the depth
\* asked for
C16_Witness ==
  /\ LiquidityReturned
  /\ call.bids = ExampleBids /\ call.asks = ExampleAsks
  /\ call.depth = 1
  /\ result.value.bid_depth = Value(FInt(20))
  /\ result.value.order_book_imbalance.has

KyleReturned == run = "calculateKylesLambda" /\ result.returned

\* the trades of the called history whose timestamp is within the window
InKyleWindow ==
  {i \in 1..Len(call.history) :
     now - call.history[i].timestamp <= call.time_window_ms}

\* C15 as stated: whenever exactly two trades of the history have timestamps
\* within the Kyle's-lambda window, whatever older trades the history also
\* holds, calculateKylesLambda returns 0.
C15_TwoInWindowGivesZero ==
  (KyleReturned /\ Cardinality(InKyleWindow) = 2) => result.value = FZero

\* C15 amended: calculateKylesLambda returns 0 whenever fewer than two
\* consecutive pairs of the history have their later trade within the window,
\* in particular when the history holds exactly two trades; the earlier trade
\* of a pair may be older than the window.
C15_FewerThanTwoPairsGivesZero ==
  (KyleReturned /\ Cardinality(InKyleWindow \ {1}) < 2) =>
    result.value = FZero

\* a history of exactly two trades, both within the window, has given 0
C15_Witness ==
  /\ KyleReturned
  /\ Len(call.history) = 2
  /\ InKyleWindow = {1, 2}
  /\ call.history[1].price # call.history[2].price
  /\ result.value = FZero

\* thread t has finished two snapshots in a row with no addTrade and no
\* updateOrderBook call begun in between
TwoSnapshotsNoIngestion(t) ==
  /\ lsnap[t].done /\ lprev[t].done
  /\ lpc[t] = "idle"
  /\ lsnap[t].at = lprev[t].at
  /\ ingests = lsnap[t].at

\* C11: snapshot() is idempotent: two calls of performComprehensiveAnalysis
\* with no intervening addTrade or updateOrderBook return identical results
\* in every field, including Kyle's lambda and the Amihud measures, whatever
\* wall-clock time elapses between the two calls.
C11_SnapshotIdempotent ==
  \A t \in LThreads :
    TwoSnapshotsNoIngestion(t) =>
      /\ lsnap[t].metrics = lprev[t].metrics
      /\ lsnap[t].risk = lprev[t].risk

\* positions of a thread inside performComprehensiveAnalysis
InAnalysis ==
  {"calculateRiskMetrics", "analyzeOrderBookLiquidity",
   "calculateKylesLambda_daily", "calculateKylesLambda_hourly",
   "calculateAmihudMeasure_1", "calculateAmihudMeasure_30",
   "calculateAmihudMeasure_90", "risk_cs", "book_cs", "kyle_daily_cs",
   "kyle_hourly_cs", "amihud_1_cs", "amihud_30_cs", "amihud_90_cs"}

\* a step of the three detect functions
DetectStep == \E t \in TThreads : tpc[t] = "detect" /\ tpc'[t] # "detect"

\* a step of performComprehensiveAnalysis or of one of its sub-computations:
\* the call itself, or a move from a position inside it
AnalysisStep ==
  \E t \in LThreads :
    \/ lpc[t] = "idle" /\ lpc'[t] = "calculateRiskMetrics"
    \/ lpc[t] \in InAnalysis /\ lpc'[t] # lpc[t]

\* C12: the anomaly detector and the metric computations are pure readers:
\* detectPriceAnomaly, detectSizeAnomaly, detectVolatilityAnomaly and
\* performComprehensiveAnalysis with all its sub-computations leave the trade
\* window, the price history, the order book view, the EWMA state and both
\* thresholds unchanged.
C12_PureReaders ==
  [][/\ DetectStep =>
          UNCHANGED <<recent_trades, ewma_initialized, ewma_variance,
                      previous_price, large_trade_threshold,
                      price_movement_threshold>>
     /\ AnalysisStep =>
          UNCHANGED <<trade_history, price_history, current_bids,
                      current_asks>>]_vars

\* a snapshot has been completed over a trade window, a price history and a
\* view that are not empty, and they are still what the snapshot read
C12_Witness ==
  \E t \in LThreads :
    /\ lsnap[t].done
    /\ lsnap[t].risk # <<>> /\ lsnap[t].risk = price_history
    /\ lsnap[t].amihud_90 # <<>> /\ lsnap[t].amihud_90 = trade_history
    /\ lsnap[t].book.bids # <<>>
    /\ lsnap[t].book = Book(current_bids, current_asks)

SizeAnomalyReturned == run = "detectSizeAnomaly" /\ result.returned

\* the flag as C17 states it; the mean is the sum over the number of trades,
\* so size > 3.0 * mean is size * n > 3 * sum
SizeFlagAsStated(w, size, threshold) ==
  IF Len(w) < 10 THEN size > threshold
  ELSE size > threshold \/ size * Len(w) > 3 * SumSeq(Volumes(w))

\* C17: the size-anomaly flag of a just-ingested trade is size > large-trade
\* threshold when the window holds fewer than 10 trades, and otherwise
\* size > large-trade threshold or size > 3.0 * the mean trade size of the
\* window; sizes [1, 1, 1] into an empty analyzer with threshold 1.0 are all
\* not flagged.
C17_SizeAnomalyFlag ==
  SizeAnomalyReturned =>
    /\ result.value = SizeFlagAsStated(call.window, call.current_volume,
                                       call.large_trade_threshold)
    /\ (Len(call.window) <= 3
         /\ \A i \in 1..Len(call.window) : call.window[i].volume = 10) =>
          result.value = FALSE

\* the same over windows that hold trades of positive size only
SizeFlagAsStatedForValidWindows ==
  (SizeAnomalyReturned
     /\ \A i \in 1..Len(call.window) : call.window[i].volume > 0) =>
    result.value = SizeFlagAsStated(call.window, call.current_volume,
                                    call.large_trade_threshold)

\* a step of processEvent in which updateEWMAVolatility, already initialized,
\* gets a price whose log return against previous_price is not finite
NonFiniteReturnStep ==
  /\ run = "trades"
  /\ Len(feed') = Len(feed) + 1
  /\ ewma_initialized
  /\ LogReturnSquared(feed'[Len(feed')].price, previous_price).k # "fin"

\* C18: in the EWMA update, if the log return r = ln(p / p0) is not finite
\* (p = 0 or p / p0 <= 0), the update is skipped and the prior EWMA state
\* (variance, previous price, initialized flag) is retained unchanged.
C18_NonFiniteReturnSkipsUpdate ==
  [][NonFiniteReturnStep =>
       UNCHANGED <<ewma_variance, previous_price, ewma_initialized>>]_vars

\* C19: in every reachable state the large-trade threshold is >= 1.0 (10
\* tenths) and the price-movement threshold is >= 10.0, from construction on
\* and after any sequence of trade ingestions.
C19_ThresholdFloors ==
  /\ large_trade_threshold >= LARGE_TRADE_FLOOR
  /\ price_movement_threshold >= PRICE_MOVE_FLOOR

\* the thresholds have been recomputed from a window whose 95th percentile
\* of price changes is below the floor
C19_Witness ==
  /\ run = "trades"
  /\ Len(recent_trades) >= MIN_TRADES_FOR_ANALYSIS
  /\ \A i \in 1..Len(PriceChanges(recent_trades)) :
       PriceChanges(recent_trades)[i] < PRICE_MOVE_FLOOR
  /\ price_movement_threshold = PRICE_MOVE_FLOOR
  /\ large_trade_threshold = LARGE_TRADE_FLOOR

\* the number of values of a sample below v, and at most v
Below(sample, v) == Cardinality({i \in 1..Len(sample) : sample[i] < v})
AtMost(sample, v) == Cardinality({i \in 1..Len(sample) : sample[i] <= v})

\* v is the element at index min(floor(p * n), n - 1), counted from 0, of the
\* sample sorted ascending: at most that many values are below v, more than
\* that many are at most v
IsPercentile(v, sample, pct) ==
  LET n == Len(sample)
      idx == Min((pct * n) \div 100, n - 1)
  IN Below(sample, v) <= idx /\ AtMost(sample, v) > idx

\* C20: after every accepted trade, updateAdaptiveThresholds leaves both
\* thresholds unchanged while the window holds fewer than 10 trades, and
\* otherwise sets the large-trade threshold to max(1.0, P90 of the window's
\* trade sizes) and the price-movement threshold to max(10.0, P95 of the
\* window's absolute consecutive price deltas), the percentile of an
\* ascending-sorted sample of n values being the element at index
\* min(floor(p * n), n - 1).
C20_AdaptiveThresholds ==
  run = "trades" =>
    IF Len(recent_trades) < 10
      THEN /\ large_trade_threshold = LARGE_TRADE_INIT
           /\ price_movement_threshold = PRICE_MOVE_INIT
      ELSE /\ \E v \in {recent_trades[i].volume : i \in 1..Len(recent_trades)} :
                /\ IsPercentile(v, Volumes(recent_trades), 90)
                /\ large_trade_threshold = IF v > 10 THEN v ELSE 10
           /\ \E d \in {PriceChanges(recent_trades)[i] :
                          i \in 1..Len(PriceChanges(recent_trades))} :
                /\ IsPercentile(d, PriceChanges(recent_trades), 95)
                /\ price_movement_threshold = IF d > 10 THEN d ELSE 10

\* the thresholds have been recomputed from a window of more than 10 trades
\* whose 90th percentile of sizes is below its largest size
C20_Witness ==
  /\ run = "trades"
  /\ Len(recent_trades) > 10
  /\ \E i \in 1..Len(recent_trades) :
       recent_trades[i].volume > large_trade_threshold
  /\ large_trade_threshold = LARGE_TRADE_FLOOR
  /\ price_movement_threshold = PRICE_MOVE_FLOOR

\* the trade processEvent has just ingested, and its price change against
\* the trade before it in the window
LastTrade == recent_trades[Len(recent_trades)]
LastPriceChange ==
  Abs(LastTrade.price - recent_trades[Len(recent_trades) - 1].price)

\* the sum of the absolute consecutive price deltas of the window; avg_dev is
\* this sum over Len(recent_trades) - 1
SumOfPriceDeltas ==
  SumSeq([i \in 1..(Len(recent_trades) - 1) |->
            Abs(recent_trades[i + 1].price - recent_trades[i].price)])

\* C21: the price-anomaly flag of a just-ingested trade is false when the
\* window holds fewer than 2 trades or when the mean absolute consecutive
\* price delta of the window (avg_dev) is 0; otherwise it is
\* |price change| > price-movement threshold or |price change| > 2.5 * avg_dev,
\* the change being taken against the immediately preceding trade of the
\* window.
C21_PriceAnomalyFlag ==
  (run = "trades" /\ Len(recent_trades) > 0) =>
    anomalies.price =
      IF Len(recent_trades) < 2 THEN FALSE
      ELSE IF SumOfPriceDeltas = 0 THEN FALSE
      ELSE \/ LastPriceChange > price_movement_threshold
           \/ 2 * LastPriceChange * (Len(recent_trades) - 1)
                > 5 * SumOfPriceDeltas

\* a trade flagged by the relative criterion alone
C21_Witness ==
  /\ run = "trades"
  /\ Len(recent_trades) >= 2
  /\ anomalies.price
  /\ LastPriceChange > 0
  /\ LastPriceChange <= price_movement_threshold

\* C22: the volatility-anomaly flag equals (EWMA initialized and
\* sqrt(variance) > 0.02); the first observed price only seeds the estimator
\* (variance 1e-4, previous price stored, initialized set), so the first
\* ingested trade is never flagged as a volatility anomaly. The variance is
\* in units of 1e-8, so 0.02 squared is 40000 and 1e-4 is 10000.
C22_VolatilityAnomalyFlag ==
  run = "trades" =>
    /\ anomalies.volatility =
         (/\ ewma_initialized
          /\ \/ ewma_variance.k = "inf"
             \/ ewma_variance.k = "fin" /\ ewma_variance.v > 40000)
    /\ Len(feed) = 1 =>
         /\ ewma_initialized
         /\ ewma_variance = Fin(10000)
         /\ previous_price = feed[1].price
         /\ ~anomalies.volatility

\* a trade after the first has been flagged on a finite variance
C22_Witness ==
  /\ run = "trades"
  /\ Len(feed) > 1
  /\ ewma_variance.k = "fin"
  /\ anomalies.volatility

RiskReturned == run = "calculateRiskMetrics" /\ result.returned

\* 100 * the mean of the first count values of the ascending-sorted returns
\* of the called price history
MeanOfWorst(count) ==
  LET sorted == SortAsc(Returns(call.price_history))
  IN FMul(FDiv(FSum([i \in 1..count |-> FInt(sorted[i])]), FInt(count)),
          FInt(100))

\* C23: the Expected Shortfall_95 reported by calculateRiskMetrics equals
\* 100 * the mean of the ascending-sorted returns at or below the VaR index
\* (indices 0..var_index inclusive, var_index = min(ceil(0.05 * n), n - 1)),
\* for every price history yielding n >= 1 returns.
C23_ExpectedShortfallInclusive ==
  (RiskReturned /\ Len(Returns(call.price_history)) >= 1) =>
    result.value.expected_shortfall_95 =
      Value(MeanOfWorst(VarIndex(Len(Returns(call.price_history))) + 1))

\* what is reported: the mean of the returns strictly below the VaR index,
\* and the initial 0 when the VaR index is 0
ExpectedShortfallBelowVarIndex ==
  (RiskReturned /\ Len(Returns(call.price_history)) >= 1) =>
    LET var_index == VarIndex(Len(Returns(call.price_history)))
    IN result.value.expected_shortfall_95 =
         IF var_index = 0 THEN Value(FZero) ELSE Value(MeanOfWorst(var_index))

AmihudReturned == run = "calculateAmihudMeasure" /\ result.returned

CalendarDay(trade) == trade.timestamp \div DAY_IN_MS
InPeriod(trade) == now - trade.timestamp <= call.period_days * DAY_IN_MS

\* the consecutive pairs of the called history that lie on calendar day d
\* and whose later trade is inside the period
SameDayPairs(d) ==
  {i \in 2..Len(call.history) :
     /\ CalendarDay(call.history[i]) = d
     /\ CalendarDay(call.history[i - 1]) = d
     /\ InPeriod(call.history[i])}

\* the day's sum of |return| over the day's sum of dollar volume
DayRatio(d) ==
  LET pairs == Ascending(SameDayPairs(d))
      h == call.history
  IN FDiv(FSum([n \in 1..Len(pairs) |->
                  FDiv(FInt(Abs(h[pairs[n]].price - h[pairs[n] - 1].price)),
                       FInt(h[pairs[n] - 1].price))]),
          FSum([n \in 1..Len(pairs) |->
                  FMul(FInt(h[pairs[n]].amount), FInt(h[pairs[n]].price))]))

QualifyingDays ==
  {d \in {CalendarDay(call.history[i]) : i \in 1..Len(call.history)} :
     SameDayPairs(d) # {}}

\* C24: calculateAmihudMeasure(period_days) buckets the consecutive trade
\* pairs that lie on the same calendar day and whose later trade is within
\* the period into per-day sums of |return| and of dollar volume, takes the
\* ratio of the two per day, and returns the mean of the daily ratios, or 0
\* when no day qualifies or the history has fewer than 2 trades.
C24_AmihudDailyMean ==
  AmihudReturned =>
    result.value =
      IF Len(call.history) < 2 \/ QualifyingDays = {} THEN FZero
      ELSE LET days == Ascending(QualifyingDays)
           IN FDiv(FSum([n \in 1..Len(days) |-> DayRatio(days[n])]),
                   FInt(Len(days)))

\* a history with a pair across midnight, a same-day pair older than the
\* period and a day that qualifies, measured as non-zero
C24_Witness ==
  /\ AmihudReturned
  /\ \E i \in 2..Len(call.history) :
        CalendarDay(call.history[i]) # CalendarDay(call.history[i - 1])
  /\ \E i \in 2..Len(call.history) :
        /\ CalendarDay(call.history[i]) = CalendarDay(call.history[i - 1])
        /\ ~InPeriod(call.history[i])
  /\ QualifyingDays # {}
  /\ result.value # FZero

\* C25: in every state observable outside the lock, price_history has the
\* same length as trade_history and price_history[i] = trade_history[i].price
\* for every i, after any interleaving of addTrade calls, evictions included.
C25_PriceHistoryMirrorsTrades ==
  (run = "analyzer_mt" /\ data_mutex = "free") =>
    /\ Len(price_history) = Len(trade_history)
    /\ \A i \in 1..Len(trade_history) :
          price_history[i] = trade_history[i].price

\* both histories full after an eviction, holding two different prices,
\* with no thread inside addTrade
C25_Witness ==
  /\ run = "analyzer_mt"
  /\ data_mutex = "free"
  /\ Len(accepted) > MAX_TRADE_HISTORY
  /\ Len(trade_history) = MAX_TRADE_HISTORY
  /\ Len(price_history) = MAX_TRADE_HISTORY
  /\ price_history[1] # price_history[2]

\* C26: whenever the window holds between 10 and 21 trades after ingesting a
\* trade T, the recomputed price-movement threshold is >= |price change| of
\* T, so the absolute criterion cannot fire and the price-anomaly flag of T
\* is the relative criterion alone (avg_dev > 0 and |price change| >
\* 2.5 * avg_dev); and when the window holds exactly 10 trades the recomputed
\* large-trade threshold is >= the size of T.
C26_ThresholdsCoverLatestTrade ==
  (run = "trades" /\ Len(recent_trades) > 0) =>
    /\ Len(recent_trades) \in 10..21 =>
          /\ price_movement_threshold >= LastPriceChange
          /\ anomalies.price =
                (/\ SumOfPriceDeltas > 0
                 /\ 2 * LastPriceChange * (Len(recent_trades) - 1)
                      > 5 * SumOfPriceDeltas)
    /\ Len(recent_trades) = 10 =>
          large_trade_threshold >= LastTrade.volume

\* a window of 21 trades whose newest trade moved the price by more than the
\* floor of the threshold and is flagged
C26_Witness ==
  /\ run = "trades"
  /\ Len(recent_trades) = 21
  /\ LastPriceChange > PRICE_MOVE_FLOOR
  /\ price_movement_threshold = LastPriceChange
  /\ anomalies.price

\* the threads between the guard of line 814 and the fetch_add of line 819
InFlight ==
  {t \in LThreads : lpc[t] \in {"addTrade", "add_hist", "add_price", "count"}}

\* thread t passes line 819 in the step
Counts(t) == lpc[t] = "count" /\ lpc'[t] # "count"

\* thread t enters performAndPrintAnalysis in the step
StartsAnalysis(t) ==
  lpc[t] # "calculateRiskMetrics" /\ lpc'[t] = "calculateRiskMetrics"

\* C27: for every interleaving of concurrent processTrade calls, the
\* comprehensive analysis is triggered exactly once for each multiple of 100
\* of accepted trades, and rejected trades do not advance the counter: the
\* counter moves by one exactly when an accepted trade passes line 819, the
\* analysis starts exactly in the steps that take the counter to a multiple
\* of 100, a rejected trade leaves counter and threads as they are, and the
\* counter plus the accepted trades still on their way is the number of
\* accepted trades.
C27_AnalysisOncePerHundred ==
  [][run = "analyzer_count" =>
       /\ liq_trade_count' =
            liq_trade_count + Cardinality({t \in LThreads : Counts(t)})
       /\ Cardinality({t \in LThreads : Counts(t)}) <= 1
       /\ \A t \in LThreads :
            StartsAnalysis(t) <=>
              (Counts(t) /\ liq_trade_count' % 100 = 0)
       /\ (ops' # ops /\ ingests' = ingests) =>
            (liq_trade_count' = liq_trade_count /\ lpc' = lpc)
       /\ liq_trade_count' + Cardinality(InFlight') = ingests']_vars

\* the counter has passed 200 and both threads are in an analysis: one that
\* started at 100 and one that started at 200
C27_Witness ==
  /\ run = "analyzer_count"
  /\ liq_trade_count >= 200
  /\ ops > ingests
  /\ \A t \in LThreads : lpc[t] \notin {"idle"} \cup InFlight

\* C28: no LiquidityAnalyzer operation acquires data_mutex while it holds it
\* (performComprehensiveAnalysis takes and releases the lock once per
\* sub-computation, the private helpers take none), so under fair scheduling
\* every addTrade, updateOrderBook, metric computation and snapshot call of
\* any thread eventually returns with the lock released; no deadlock is
\* reachable.
C28_EveryCallReturns ==
  \A t \in LThreads :
    (lpc[t] # "idle") ~> (lpc[t] = "idle" /\ data_mutex # t)

\* one thread waits for data_mutex to continue its snapshot while the other
\* holds it inside addTrade
C28_Witness ==
  /\ run = "analyzer_mt"
  /\ \E t, u \in LThreads :
        /\ lpc[t] \in {"calculateKylesLambda_daily", "calculateAmihudMeasure_30"}
        /\ data_mutex = u
        /\ lpc[u] \in {"add_hist", "add_price"}

\* C29: whenever a snapshot reports them as present, bid slippage and ask
\* slippage are both >= 0 (the bid VWAP never exceeds the best bid and the
\* ask VWAP is never below the best ask), for every order book accepted by
\* updateOrderBook and every positive sample volume.
C29_SlippageNonNegative ==
  LiquidityReturned =>
    /\ result.value.bid_slippage.has =>
          FLessEq(FZero, result.value.bid_slippage.v)
    /\ result.value.ask_slippage.has =>
          FLessEq(FZero, result.value.ask_slippage.v)

\* on sides whose first level holds the whole sample volume the reported
\* slippages are not negative
SlippageNonNegativeWhenFirstLevelFills ==
  (/\ LiquidityReturned
   /\ Len(call.bids) > 0 /\ Len(call.asks) > 0
   /\ FLessEq(call.sample_volume, SizeOf(call.bids[1]))
   /\ FLessEq(call.sample_volume, SizeOf(call.asks[1]))) =>
    /\ result.value.bid_slippage.has =>
          FLessEq(FZero, result.value.bid_slippage.v)
    /\ result.value.ask_slippage.has =>
          FLessEq(FZero, result.value.ask_slippage.v)

\* C30: after k trades have been processed the window length is
\* min(k, capacity) (recent_trades with capacity 50 in trades.cpp,
\* trade_history with capacity MAX_TRADE_HISTORY in LiquidityAnalyzer); the
\* length never decreases, so once the trades.cpp window has reached 10
\* trades every later trade finds at least 10 trades in the window and
\* leaves both adaptive thresholds recomputed from it.
C30_WindowLengthMonotone ==
  /\ [](/\ Len(recent_trades) = Min(trade_count, AVERAGE_WINDOW_SIZE)
        /\ Len(trade_history) = Min(Len(accepted), MAX_TRADE_HISTORY))
  /\ [][/\ Len(recent_trades') >= Len(recent_trades)
        /\ Len(trade_history') >= Len(trade_history)
        /\ (Len(recent_trades) >= MIN_TRADES_FOR_ANALYSIS
              /\ trade_count' # trade_count) =>
             /\ Len(recent_trades') >= MIN_TRADES_FOR_ANALYSIS
             /\ [large |-> large_trade_threshold',
                 move |-> price_movement_threshold'] =
                  updateAdaptiveThresholds(recent_trades',
                                           [large |-> 0, move |-> 0])]_vars

\* the window of trades.cpp stays at its capacity after an eviction, with
\* thresholds recomputed from a window that holds an unusual trade
C30_Witness ==
  /\ run = "trades"
  /\ trade_count > AVERAGE_WINDOW_SIZE
  /\ Len(recent_trades) = AVERAGE_WINDOW_SIZE
  /\ \E i \in 1..Len(recent_trades) : ~IsBase(recent_trades[i])

=============================================================================
